---------------------------- MODULE Spec2Model ----------------------------
(***************************************************************************)
(* Load generation and metrics core of apitestkit:                         *)
(*   - LoadGenerator._execute_with_retry, _classify_error_type,            *)
(*     _record_error, _check_error_threshold, _generate_concurrent_load    *)
(*     (src/apitestkit/performance/load_generator.py)                      *)
(*   - MetricsCollector.record_request                                     *)
(*     (src/apitestkit/performance/metrics_collector.py)                   *)
(*   - PerformanceRunner.run and its _run_*_test helpers                   *)
(*     (src/apitestkit/performance/performance_runner.py)                  *)
(* Delays are counted in units of one retry_delay tick; wall-clock         *)
(* deadlines are a nondeterministic "expired" observation of time.time().  *)
(***************************************************************************)
EXTENDS Integers, Sequences, FiniteSets, TLC

VARIABLES
    cfg,        \* LoadGenerator._test_config / _retry_config (read-only in a run)
    lg,         \* LoadGenerator object fields (stop event, counters, statistics)
    wpc,        \* per task slot: position inside _execute_with_retry
    attempt,    \* per task slot: loop variable `attempt`
    calls,      \* per task slot: number of task_func invocations so far
    sleeps,     \* per task slot: the delays passed to time.sleep, in order
    hist,       \* per task slot: outcome kind of every attempt so far
    exc,        \* per task slot: exception caught by the running attempt
    outcome,    \* per task slot: value returned by _execute_with_retry
    decidedS,   \* per task slot: stop event as it was at each retry decision
    execs,      \* number of direct _execute_with_retry calls started
    mpc,        \* main thread position inside _generate_concurrent_load
    fut,        \* per task slot: state of the submitted future
    nsub,       \* loop variable of the submit loop
    batches,    \* executor batches opened so far
    results,    \* local list `results`
    callbacks,  \* values passed to result_callback, in order
    collected,  \* futures whose completion was taken from as_completed
    load_exc,   \* exception that left generate_load ("" when none)
    late,       \* tasks submitted while the stop event was already set
    ret,        \* keys and abort reason of the dictionary generate_load returned
    mc,         \* MetricsCollector._metrics counters and lists
    mc_lock,    \* MetricsCollector._lock: 0 is None, n > 0 the lock made by thread n
    lock_owner, \* per lock object: holding thread, 0 when free
    tpc,        \* per caller thread: position inside record_request
    tlock,      \* per caller thread: lock object reached through `with self._lock`
    treg,       \* per caller thread: value read by an in-place `+= 1`
    targ,       \* per caller thread: the `success` argument of the running call
    tcalls,     \* per caller thread: record_request calls started
    mc_done,    \* record_request calls that returned
    runner,     \* PerformanceRunner attributes set by the fluent API
    test_config, \* PerformanceRunner._test_config, the TestConfig being built
    config_call, \* the last configuration call: its name, arguments, whether it raised
    ncalls,     \* number of configuration calls made
    run_state,  \* result of PerformanceRunner.run()
    nrec,       \* number of direct _record_error calls made
    check_ret,  \* outcome of the latest _check_error_threshold call
    before_did, \* what before_func did in the Before phase ("" when not run)
    ramp_users, \* current_users computed by each iteration of the ramp loop
    step_results, \* step_results of _generate_ramp_up_load: the 'step' of each entry
    epc,        \* per thread: position inside _record_error
    ereg,       \* per thread: value read by the running `+= 1`
    etype,      \* per thread: error_type of the running _record_error call
    ekinds,     \* per error_type: _record_error calls started with it
    before_fut, \* the future of executor.submit(before_func) in the Before phase
    before_calls, \* invocations of before_func so far
    before_results, \* LoadGenerator._before_results: what each entry is
    st_pc,      \* main thread position inside _generate_stability_load
    st_results, \* local list `results` of the stability run
    interval_results, \* local list `interval_results` of the stability run
    st_checks,  \* per periodic check: what it analysed, what was recorded since the last
    st_mark,    \* len(results) at the previous periodic check
    st_running, \* futures of the current batch whose task has not finished
    st_done,    \* finished futures of the current batch, not yet collected
    st_submitted, \* tasks submitted by the stability run so far
    st_iters,   \* iterations of the stability loop started so far
    spc,        \* position of the caller inside get_summary_metrics / get_all_metrics
    skind,      \* which of the two the running call is
    sreg,       \* local variables of the running get_summary_metrics call
    summary,    \* what the latest call returned; NoSummary once a later
                \* record_request has been made
    prev_summary, \* what the call before the latest returned, same convention
    mc_before,  \* the collector's _metrics when the latest call started
    updated,    \* update_concurrent_users was called since the latest call returned
    cin,        \* the exception handed to _classify_error_type
    cout        \* what _classify_error_type returned ("" before the call)

vars == << cfg, lg, wpc, attempt, calls, sleeps, hist, exc, outcome, decidedS, execs,
           mpc, fut, nsub, batches, results, callbacks, collected, load_exc,
                    late, ret,
           mc, mc_lock, lock_owner, tpc, tlock, treg, targ, tcalls, mc_done,
           runner, run_state, nrec, check_ret, before_did,
           spc, skind, sreg, summary, prev_summary, mc_before, cin, cout,
           test_config, config_call, ncalls, ramp_users, step_results,
           st_pc, st_results, interval_results, st_checks, st_mark, st_running,
           st_done, st_submitted, st_iters, before_fut, before_calls, before_results,
           epc, ereg, etype, ekinds >>

retryVars == << wpc, attempt, calls, sleeps, hist, exc, outcome, decidedS, execs >>
loadVars == << mpc, fut, nsub, batches, results, callbacks, collected, load_exc,
              late, ret >>
metricsVars == << mc, mc_lock, lock_owner, tpc, tlock, treg, targ, tcalls, mc_done >>
runnerVars == << runner, run_state >>
unitVars == << nrec, check_ret, before_did >>
summaryVars == << spc, skind, sreg, summary, prev_summary, mc_before, updated >>
classVars == << cin, cout >>
configVars == << test_config, config_call, ncalls >>
rampVars == << ramp_users, step_results >>
raceVars == << epc, ereg, etype, ekinds >>
beforeVars == << before_fut, before_calls, before_results >>
stabVars == << st_pc, st_results, interval_results, st_checks, st_mark, st_running,
              st_done, st_submitted, st_iters >>

----------------------------------------------------------------------------
(* Bounds of the model *)

MaxUsers == 2           \* task slots (futures) of one executor batch
MaxRetriesBound == 2    \* max_retries ranges over 0..MaxRetriesBound
MaxDelay == 2           \* retry_delay ranges over 1..MaxDelay ticks
MaxBatches == 1         \* executor batches of one concurrent run
MaxThreads == 2         \* threads calling record_request
MaxRecorded == 3        \* direct _record_error calls and completed tasks
MaxSamples == 3         \* record_request calls before a summary is taken
MaxTime == 2            \* response times range over 1..MaxTime
MaxCalls == 2           \* record_request calls per thread
MaxArg == 1             \* configuration arguments range over -1..MaxArg
MaxConfigCalls == 2     \* configuration calls made on one runner
MaxSecond == 2          \* start times fall in the seconds 1..MaxSecond
MaxSteps == 2           \* ramp_up_steps ranges over 0..MaxSteps

Slots == 1..MaxUsers
Threads == 1..MaxThreads

\* Python's None where an integer is expected
NoneV == -1

----------------------------------------------------------------------------
(* Exceptions a task may raise: class and str(e) *)

ExcClasses == { "AssertionError", "socket.timeout", "requests.Timeout",
                "requests.ConnectionError", "requests.HTTPError", "HTTPError",
                "requests.RequestException", "ValueError", "ConnectionError" }

\* isinstance(e, base) for the classes above
IsInstance(cls, base) ==
    \/ cls = base
    \/ base = "requests.RequestException" /\
         cls \in { "requests.Timeout", "requests.ConnectionError", "requests.HTTPError" }

\* 'timeout' in str(e).lower()
MsgHasTimeout(msg) == msg \in { "request timeout", "connect timeout" }

\* any(k in str(e).lower() for k in ['connection', 'network', 'connect'])
MsgHasConnection(msg) ==
    msg \in { "Connection refused", "Connection timed out", "connect timeout" }

TaskExceptions ==
    { [cls |-> "ValueError", msg |-> "Invalid value"],
      [cls |-> "ValueError", msg |-> "request timeout"],
      [cls |-> "socket.timeout", msg |-> "Connection timed out"],
      [cls |-> "ConnectionError", msg |-> "Connection refused"],
      [cls |-> "HTTPError", msg |-> ""],
      [cls |-> "requests.RequestException", msg |-> "Invalid value"],
      [cls |-> "AssertionError", msg |-> "request timeout"] }

NoExc == [cls |-> "", msg |-> ""]

\* what task_func can hand back without raising
TaskReturns == { "dict_ok", "dict_fail", "response", "value", "none" }

----------------------------------------------------------------------------
(* LoadGenerator._classify_error_type *)

ClassifyErrorType(e) ==
    IF IsInstance(e.cls, "AssertionError") THEN "assertion_error"
    ELSE IF IsInstance(e.cls, "socket.timeout") THEN "timeout"
    ELSE IF IsInstance(e.cls, "requests.Timeout") \/ MsgHasTimeout(e.msg) THEN "timeout"
    ELSE IF IsInstance(e.cls, "requests.ConnectionError") \/ MsgHasConnection(e.msg)
         THEN "connection_error"
    ELSE IF e.cls = "HTTPError" \/ e.cls = "requests.HTTPError" THEN "http_error"
    ELSE IF IsInstance(e.cls, "requests.RequestException") THEN "request_error"
    ELSE "other_error"

ErrorKinds == { "assertion_error", "timeout", "connection_error", "http_error",
                "request_error", "other_error" }

----------------------------------------------------------------------------
(* LoadGenerator._record_error *)

\* error_type_mapping.get(error_type, 'other_error')
NormalizedErrorType(error_type) ==
    CASE error_type = "timeout" -> "timeout"
      [] error_type = "connection_error" -> "connection_error"
      [] error_type \in { "http_error", "assertion_error", "validation_error",
                          "business_error" } -> "business_error"
      [] error_type = "system_error" -> "system_error"
      [] error_type = "unexpected_error" -> "unexpected_error"
      [] OTHER -> "other_error"

\* error types the concurrent callers record
RaceTypes == { "timeout", "unexpected_error" }

StandardErrorTypes == { "timeout", "connection_error", "business_error",
                        "system_error", "unexpected_error", "other_error" }

Bump(f, k) == IF k \in DOMAIN f THEN [f EXCEPT ![k] = @ + 1] ELSE f @@ (k :> 1)

\* a write to the dictionary _error_statistics: _error_stats shows it as long as
\* both names are bound to the same dictionary
WithStatistics(g, st) ==
    [g EXCEPT !.error_statistics = st,
              !.error_stats = IF g.stats_aliased THEN st ELSE @]

RecordError(g, error_type, error_message) ==
    LET norm == NormalizedErrorType(error_type)
        s0 == [g.error_statistics EXCEPT !["total_errors"] = @ + 1]
        s1 == IF norm \in DOMAIN s0 THEN Bump(s0, norm) ELSE Bump(s0, "other_error")
        s2 == IF error_type \notin StandardErrorTypes THEN Bump(s1, error_type) ELSE s1
    IN  [WithStatistics(g, s2) EXCEPT
                  !.error_count = @ + 1,
                  !.total_errors = s0["total_errors"],
                  !.consecutive_errors = @ + 1,
                  !.consecutive_error_count = g.consecutive_errors + 1,
                  !.error_details = Bump(@, error_message),
                  !.stop_event = @ \/ (norm = "system_error")]

----------------------------------------------------------------------------
(* LoadGenerator._execute_with_retry *)

\* variant: only the configured kinds are retried
ShouldRetryListedOnly(error_type, e, retryable_errors) ==
    error_type \in retryable_errors

\* should_retry
ShouldRetry(error_type, e, retryable_errors) ==
    \/ error_type \in retryable_errors
    \/ error_type = "timeout"
    \/ IsInstance(e.cls, "socket.timeout")

\* variant: attempt <= max_retries
AttemptsRemainInclusive(a, max_retries) == a <= max_retries

\* attempt < max_retries
AttemptsRemain(a, max_retries) == a < max_retries

\* variant: base_retry_delay * (2 ** (attempt + 1))
BackoffDelayShifted(base_retry_delay, a) == base_retry_delay * (2 ^ (a + 1))

\* base_retry_delay * (2 ** attempt)
BackoffDelay(base_retry_delay, a) == base_retry_delay * (2 ^ a)

\* range(max_retries + 1)
AttemptRange(max_retries) == 0..max_retries

NoneResult == [tag |-> "None", success |-> FALSE, wrapped |-> FALSE, error_type |-> ""]

\* the value returned for a task result (the if/elif chain after the call)
WrapResult(v) ==
    CASE v = "dict_ok" ->
             [tag |-> "dict", success |-> TRUE, wrapped |-> FALSE, error_type |-> ""]
      [] v = "dict_fail" ->
             [tag |-> "dict", success |-> TRUE, wrapped |-> TRUE, error_type |-> ""]
      [] v = "response" ->
             [tag |-> "dict", success |-> TRUE, wrapped |-> TRUE, error_type |-> ""]
      [] v = "value" ->
             [tag |-> "dict", success |-> TRUE, wrapped |-> TRUE, error_type |-> ""]
      [] OTHER ->
             [tag |-> "dict", success |-> TRUE, wrapped |-> FALSE, error_type |-> ""]

\* entry of _execute_with_retry: counters reset, loop starts at attempt 0
ExecEntry(w) ==
    /\ lg' = [lg EXCEPT !.consecutive_error_count = 0, !.consecutive_errors = 0]
    /\ attempt' = [attempt EXCEPT ![w] = 0]
    /\ calls' = [calls EXCEPT ![w] = 0]
    /\ sleeps' = [sleeps EXCEPT ![w] = << >>]
    /\ hist' = [hist EXCEPT ![w] = << >>]
    /\ decidedS' = [decidedS EXCEPT ![w] = << >>]
    /\ exc' = [exc EXCEPT ![w] = NoExc]
    /\ IF 0 \in AttemptRange(cfg.max_retries)
       THEN /\ wpc' = [wpc EXCEPT ![w] = "call"]
            /\ outcome' = [outcome EXCEPT ![w] = NoneResult]
       ELSE /\ wpc' = [wpc EXCEPT ![w] = "done"]
            /\ outcome' = [outcome EXCEPT ![w] = NoneResult]

\* a direct call of _execute_with_retry (as the unit tests make)
DirectCall(w) ==
    /\ wpc[w] = "idle"
    /\ fut[w] = "none"
    /\ mpc = "idle"
    /\ execs = 0
    /\ execs' = execs + 1
    /\ ExecEntry(w)
    /\ UNCHANGED << cfg, raceVars, beforeVars, stabVars, rampVars, configVars, classVars,
                    summaryVars, unitVars, loadVars, metricsVars, runnerVars >>

\* the attempt returns a value
TaskReturn(w, v) ==
    /\ wpc[w] = "call"
    /\ calls' = [calls EXCEPT ![w] = @ + 1]
    /\ hist' = [hist EXCEPT ![w] = Append(@, v)]
    /\ lg' = [lg EXCEPT !.consecutive_error_count = 0, !.consecutive_errors = 0]
    /\ outcome' = [outcome EXCEPT ![w] = WrapResult(v)]
    /\ wpc' = [wpc EXCEPT ![w] = "done"]
    /\ fut' = [fut EXCEPT ![w] = IF @ = "running" THEN "finished" ELSE @]
    /\ UNCHANGED << cfg, raceVars, beforeVars, stabVars, rampVars, configVars, classVars,
                    summaryVars, unitVars, attempt, sleeps, exc, decidedS, execs,
                    mpc, nsub, batches, results, callbacks, collected, load_exc,
                    late, ret,
                    metricsVars, runnerVars >>

\* the attempt raises e
TaskRaise(w, e) ==
    /\ wpc[w] = "call"
    /\ calls' = [calls EXCEPT ![w] = @ + 1]
    /\ exc' = [exc EXCEPT ![w] = e]
    /\ wpc' = [wpc EXCEPT ![w] = "except"]
    /\ UNCHANGED << cfg, raceVars, beforeVars, stabVars,
                    rampVars, configVars, classVars, summaryVars,
                    unitVars, lg, attempt, sleeps, hist, outcome, decidedS, execs,
                    loadVars, metricsVars, runnerVars >>

\* the bookkeeping of the except branch: _record_error, then the counters
FailedAttempt(g, e) ==
    LET g1 == RecordError(g, ClassifyErrorType(e), e.msg)
        g2 == [g1 EXCEPT !.consecutive_error_count = @ + 1]
    IN  [g2 EXCEPT !.consecutive_errors = g2.consecutive_error_count]

\* the except branch: classify, record, decide whether to retry
HandleError(w) ==
    /\ wpc[w] = "except"
    /\ LET e == exc[w]
           error_type == ClassifyErrorType(e)
           g3 == FailedAttempt(lg, e)
           retry == ShouldRetry(error_type, e, cfg.retryable_errors)
                      /\ AttemptsRemain(attempt[w], cfg.max_retries)
       IN  /\ lg' = g3
           /\ hist' = [hist EXCEPT ![w] = Append(@, error_type)]
           /\ decidedS' = [decidedS EXCEPT ![w] = Append(@, lg.stop_event)]
           /\ IF retry
              THEN /\ sleeps' = [sleeps EXCEPT ![w] =
                                   Append(@, BackoffDelay(cfg.retry_delay, attempt[w]))]
                   /\ wpc' = [wpc EXCEPT ![w] = "sleep"]
                   /\ UNCHANGED << outcome, fut >>
              ELSE /\ outcome' = [outcome EXCEPT ![w] = NoneResult]
                   /\ wpc' = [wpc EXCEPT ![w] = "done"]
                   /\ fut' = [fut EXCEPT ![w] = IF @ = "running" THEN "finished" ELSE @]
                   /\ UNCHANGED sleeps
    /\ UNCHANGED << cfg, raceVars, beforeVars, stabVars, rampVars, configVars,
                    classVars, summaryVars, unitVars, attempt, calls, exc, execs,
                    mpc, nsub, batches, results, callbacks, collected, load_exc,
                    late, ret,
                    metricsVars, runnerVars >>

\* time.sleep(retry_delay) is over: next iteration of the for loop
Wake(w) ==
    /\ wpc[w] = "sleep"
    /\ attempt' = [attempt EXCEPT ![w] = @ + 1]
    /\ IF attempt[w] + 1 \in AttemptRange(cfg.max_retries)
       THEN /\ wpc' = [wpc EXCEPT ![w] = "call"]
            /\ UNCHANGED << outcome, fut >>
       ELSE /\ wpc' = [wpc EXCEPT ![w] = "done"]
            /\ outcome' = [outcome EXCEPT ![w] = NoneResult]
            /\ fut' = [fut EXCEPT ![w] = IF @ = "running" THEN "finished" ELSE @]
    /\ UNCHANGED << cfg, raceVars, beforeVars, stabVars, rampVars, configVars, classVars,
                    summaryVars, unitVars, lg, calls, sleeps, hist, exc, decidedS, execs,
                    mpc, nsub, batches, results, callbacks, collected, load_exc,
                    late, ret,
                    metricsVars, runnerVars >>

\* LoadGenerator.stop(), callable from any thread at any time
Stop ==
    /\ ~lg.stop_event
    /\ lg' = [lg EXCEPT !.stop_event = TRUE, !.running = FALSE]
    /\ UNCHANGED << cfg, raceVars, beforeVars, stabVars, rampVars, configVars, classVars,
                    summaryVars, unitVars, retryVars, loadVars, metricsVars, runnerVars >>

----------------------------------------------------------------------------
(* LoadGenerator._check_error_threshold *)

ThresholdTypes == { "timeout", "connection_error", "business_error", "system_error" }

\* a configured per-type threshold is met
TypeThresholdMet(g, c) ==
    \E t \in ThresholdTypes :
        /\ t \in DOMAIN c.error_type_thresholds
        /\ t \in DOMAIN g.error_statistics
        /\ g.error_statistics[t] >= c.error_type_thresholds[t]

\* error_count / completed_tasks >= error_rate_threshold (threshold in percent)
RateMet(error_count, completed_tasks, pct) == error_count * 100 >= pct * completed_tasks

\* ret is "True", "False" or the exception raised; g is the object afterwards
CheckErrorThreshold(g, c) ==
    LET stopped == [g EXCEPT !.stop_event = TRUE]
    IN  IF g.stop_event THEN [ret |-> "True", g |-> g]
        ELSE IF TypeThresholdMet(g, c) THEN [ret |-> "True", g |-> stopped]
        ELSE IF c.error_threshold # NoneV /\ g.total_errors >= c.error_threshold
             THEN [ret |-> "True", g |-> stopped]
        ELSE IF /\ c.error_rate_threshold # NoneV
                /\ g.completed_tasks > 0
                /\ RateMet(g.total_errors, g.completed_tasks, c.error_rate_threshold)
             THEN [ret |-> "True", g |-> stopped]
        ELSE IF c.consecutive_error_threshold = NoneV
             THEN [ret |-> "TypeError", g |-> g]
        ELSE IF g.consecutive_errors >= c.consecutive_error_threshold
             THEN [ret |-> "True", g |-> stopped]
        ELSE IF g.consecutive_error_count >= c.consecutive_error_threshold
             THEN [ret |-> "True", g |-> stopped]
        ELSE [ret |-> "False", g |-> g]

\* _check_error_threshold has not been called since the counters last changed
NotChecked == [ret |-> "", stopped |-> FALSE]

\* error types handed to _record_error directly
RecordedTypes == { "timeout", "http_error", "system_error", "unexpected_error" }

\* generator._record_error(error_type, "Test error")
RecordErrorCall(t) ==
    /\ nrec < MaxRecorded
    /\ lg' = RecordError(lg, t, "Test error")
    /\ nrec' = nrec + 1
    /\ check_ret' = NotChecked
    /\ UNCHANGED << cfg, raceVars, beforeVars, stabVars,
                    rampVars, configVars, classVars, summaryVars,
                    before_did, retryVars, loadVars, metricsVars, runnerVars >>

\* self._completed_tasks += 1
TaskCompleted ==
    /\ lg.completed_tasks < MaxRecorded
    /\ lg' = [lg EXCEPT !.completed_tasks = @ + 1]
    /\ check_ret' = NotChecked
    /\ UNCHANGED << cfg, raceVars, beforeVars, stabVars,
                    rampVars, configVars, classVars, summaryVars,
                    nrec, before_did, retryVars, loadVars, metricsVars, runnerVars >>

\* generator._check_error_threshold()
CheckThresholdCall ==
    LET r == CheckErrorThreshold(lg, cfg)
    IN  /\ lg' = r.g
        /\ check_ret' = [ret |-> r.ret, stopped |-> lg.stop_event]
        /\ UNCHANGED << cfg, raceVars, beforeVars, stabVars,
                        rampVars, configVars, classVars, summaryVars,
                        nrec, before_did, retryVars, loadVars, metricsVars, runnerVars >>

----------------------------------------------------------------------------
(* LoadGenerator.generate_load with test_type 'concurrent':                *)
(* _generate_concurrent_load                                               *)

Min(a, b) == IF a < b THEN a ELSE b

\* max_workers of the ThreadPoolExecutor
MaxWorkers(c) ==
    IF c.test_type = "ramp_up" THEN c.concurrent_users
    ELSE IF c.max_thread_pool_size > 0
    THEN Min(c.concurrent_users, c.max_thread_pool_size)
    ELSE c.concurrent_users

\* the statistics dictionary a load profile starts from
ResetStatistics ==
    [k \in { "timeout", "connection_error", "business_error", "other_error",
             "total_errors" } |-> 0]

\* LoadGenerator.stop()
StopObj(g) == [g EXCEPT !.stop_event = TRUE, !.running = FALSE]

ErrorResult == [tag |-> "dict", success |-> FALSE, wrapped |-> FALSE,
                error_type |-> "unexpected_error"]

AttributeErrorMsg == "'NoneType' object has no attribute 'get'"

\* the resets a load profile makes before its first dispatch
ProfileSetup(g, c) ==
    [g EXCEPT !.current_users = IF c.test_type = "concurrent" THEN c.concurrent_users
                                ELSE @,
              !.error_count = 0,
              !.error_statistics = ResetStatistics,
              !.stats_aliased = FALSE,
              !.error_details = << >>]

\* first position inside the load profile
ProfileEntry(c) == IF c.test_type = "ramp_up" THEN "ramp" ELSE "loop"

\* generate_load entry; without a before function the load profile is set up
GenerateLoad ==
    /\ mpc = "idle"
    /\ execs = 0
    /\ LET g == [lg EXCEPT !.running = TRUE, !.stop_event = FALSE,
                           !.completed_tasks = 0,
                           !.before_tasks_completed = FALSE,
                           !.after_tasks_completed = FALSE,
                           !.after_results = 0]
       IN  IF cfg.has_before
           THEN lg' = g /\ mpc' = "before"
           ELSE lg' = ProfileSetup(g, cfg) /\ mpc' = ProfileEntry(cfg)
    /\ results' = << >>
    /\ before_results' = << >>
    /\ UNCHANGED << cfg, raceVars, before_fut, before_calls, stabVars,
                    rampVars, configVars, classVars, summaryVars,
                    unitVars, retryVars, fut, nsub, batches, callbacks, collected, load_exc,
                    late, ret, metricsVars, runnerVars >>

\* _execute_before_tasks: futures = [executor.submit(before_func)]
BeforeSubmit ==
    /\ mpc = "before"
    /\ before_fut = "none"
    /\ before_fut' = "running"
    /\ UNCHANGED << cfg, raceVars, before_calls, before_results, stabVars, rampVars, configVars,
                    classVars, summaryVars, unitVars, lg, retryVars, loadVars,
                    metricsVars, runnerVars >>

\* a pool thread invokes before_func; what it returns or raises stays in the future
BeforeFuture(ok) ==
    /\ before_fut = "running"
    /\ before_fut' = IF ok THEN "done" ELSE "failed"
    /\ before_calls' = before_calls + 1
    /\ UNCHANGED << cfg, raceVars, before_results, stabVars, rampVars, configVars,
                    classVars, summaryVars, unitVars, lg, retryVars, loadVars,
                    metricsVars, runnerVars >>

\* as_completed(futures) yields the future once its call has ended
FutureCompleted(f) == f \in { "done", "failed" }

\* the body of the as_completed loop: the main thread runs before_func once more
\* through the retry executor (one attempt, max_retries = 0); b is what it does
BeforePhase(b) ==
    /\ mpc = "before"
    /\ FutureCompleted(before_fut)
    /\ before_calls' = before_calls + 1
    /\ before_results' = Append(before_results, IF b = "raise" THEN "None" ELSE "dict")
    /\ LET g0 == [lg EXCEPT !.consecutive_error_count = 0, !.consecutive_errors = 0]
           r == WrapResult(b)
       IN  IF b = "raise"
           THEN \* the executor returned None: result.get raises AttributeError
                /\ lg' = FailedAttempt(g0, [cls |-> "ValueError", msg |-> "Invalid value"])
                /\ load_exc' = "AttributeError"
                /\ mpc' = "finally"
           ELSE IF ~r.success
           THEN /\ lg' = IF cfg.stop_on_error
                         THEN StopObj(RecordError(g0, "unknown", "Unknown error"))
                         ELSE [RecordError(g0, "unknown", "Unknown error")
                                 EXCEPT !.before_tasks_completed = TRUE]
                /\ mpc' = "before_check"
                /\ UNCHANGED load_exc
           ELSE /\ lg' = [g0 EXCEPT !.before_tasks_completed = TRUE]
                /\ mpc' = "before_check"
                /\ UNCHANGED load_exc
    /\ before_did' = b
    /\ UNCHANGED << cfg, raceVars, before_fut, stabVars, rampVars, configVars, classVars,
                    summaryVars, nrec, check_ret, retryVars, fut, nsub, batches, results,
                    callbacks, collected,
                    late, ret, metricsVars, runnerVars >>

\* the dictionary returned when the stop event is set after the before phase
StoppedReturn == [keys |-> { "status", "reason" }, reason |-> "before_task_failed"]

\* generate_load after the before phase: stop, or enter the load profile
BeforeCheck ==
    /\ mpc = "before_check"
    /\ IF lg.stop_event
       THEN /\ ret' = StoppedReturn
            /\ mpc' = "finally"
            /\ lg' = lg
       ELSE /\ lg' = ProfileSetup(lg, cfg)
            /\ mpc' = ProfileEntry(cfg)
            /\ ret' = ret
    /\ UNCHANGED << cfg, raceVars, beforeVars, stabVars,
                    rampVars, configVars, classVars, summaryVars,
                    unitVars, retryVars, fut, nsub, batches, results, callbacks, collected,
                    load_exc, late, metricsVars, runnerVars >>

\* users added per ramp step
StepUsers(c) ==
    IF c.ramp_up_steps > 0 THEN c.concurrent_users \div c.ramp_up_steps
    ELSE c.concurrent_users

\* current_users of the ramp loop at step (range(ramp_up_steps + 1): step counts from 0)
CurrentUsers(c, step) == Min(step * StepUsers(c), c.concurrent_users)

\* the steps of the ramp loop that have users
StepsWithUsers(c) == { k \in 0..c.ramp_up_steps : CurrentUsers(c, k) > 0 }

\* the step at which the ramp loop ends: the first step with users reads the
\* unbound name max_thread_pool_size; without one the loop runs to its last step
LastRampStep(c) ==
    IF StepsWithUsers(c) = {} THEN c.ramp_up_steps
    ELSE CHOOSE k \in StepsWithUsers(c) : \A j \in StepsWithUsers(c) : k <= j

\* the ramp phase of _generate_ramp_up_load: steps without users are skipped, the
\* first step with users raises NameError before its tasks are submitted
RampPhase ==
    /\ mpc = "ramp"
    /\ IF lg.stop_event
       THEN mpc' = "exit" /\ UNCHANGED << load_exc, lg, ramp_users >>
       ELSE /\ ramp_users' = [ i \in 1..(LastRampStep(cfg) + 1) |-> CurrentUsers(cfg, i - 1) ]
            /\ IF StepsWithUsers(cfg) # {}
               THEN /\ mpc' = "finally"
                    /\ load_exc' = "NameError"
                    /\ lg' = [lg EXCEPT !.current_users = CurrentUsers(cfg, LastRampStep(cfg))]
               ELSE mpc' = "loop" /\ UNCHANGED << load_exc, lg >>
    /\ UNCHANGED << cfg, raceVars, beforeVars, stabVars,
                    step_results, configVars, classVars, summaryVars,
                    unitVars, retryVars, fut, nsub, batches, results, callbacks, collected,
                    late, ret, metricsVars, runnerVars >>

\* step_results when the stable phase of a ramp-up run ends
StableEntry(c, sr) == IF c.test_type = "ramp_up" THEN Append(sr, "stable") ELSE sr

\* while time.time() < end_time and not self._stop_event.is_set()
LoopCheck(expired) ==
    /\ mpc = "loop"
    /\ batches >= MaxBatches => expired
    /\ IF expired \/ lg.stop_event
       THEN /\ mpc' = "exit"
            /\ step_results' = StableEntry(cfg, step_results)
            /\ UNCHANGED << fut, nsub, batches, retryVars >>
       ELSE \* a new executor and a new futures list: no task of it has started
            /\ mpc' = "submit"
            /\ fut' = [w \in Slots |-> "none"]
            /\ nsub' = 0
            /\ batches' = batches + 1
            /\ wpc' = [w \in Slots |-> "idle"]
            /\ attempt' = [w \in Slots |-> 0]
            /\ calls' = [w \in Slots |-> 0]
            /\ sleeps' = [w \in Slots |-> << >>]
            /\ hist' = [w \in Slots |-> << >>]
            /\ exc' = [w \in Slots |-> NoExc]
            /\ outcome' = [w \in Slots |-> NoneResult]
            /\ decidedS' = [w \in Slots |-> << >>]
            /\ UNCHANGED << execs, step_results >>
    /\ UNCHANGED << cfg, raceVars, beforeVars, stabVars, ramp_users, configVars, classVars,
                    summaryVars, unitVars, lg, results, callbacks, collected, load_exc,
                    late, ret,
                    metricsVars, runnerVars >>

\* variant: the submit loop does not look at the stop event
SubmitAllowedIgnoringStop(n, users, stopped) == n < users

\* for i in range(concurrent_users): if self._stop_event.is_set(): break
SubmitAllowed(n, users, stopped) == n < users /\ ~stopped

\* one iteration of the submit loop up to its check of the stop event
SubmitCheck(expired) ==
    /\ mpc = "submit"
    /\ expired => cfg.test_type = "ramp_up"
    /\ mpc' = IF ~expired /\ SubmitAllowed(nsub, cfg.concurrent_users, lg.stop_event)
              THEN "submitting" ELSE "collect"
    /\ UNCHANGED << cfg, raceVars, beforeVars, stabVars,
                    rampVars, configVars, classVars, summaryVars,
                    unitVars, lg, retryVars, fut, nsub, batches, results, callbacks, collected,
                    load_exc, late, ret, metricsVars, runnerVars >>

\* futures.append(executor.submit(self._execute_with_retry, task_func))
Submit ==
    /\ mpc = "submitting"
    /\ fut' = [fut EXCEPT ![nsub + 1] = "submitted"]
    /\ nsub' = nsub + 1
    /\ late' = IF lg.stop_event THEN late + 1 ELSE late
    /\ mpc' = "submit"
    /\ UNCHANGED << cfg, raceVars, beforeVars, stabVars,
                    rampVars, configVars, classVars, summaryVars,
                    unitVars, lg, retryVars, batches, results, callbacks, collected,
                    load_exc, ret, metricsVars, runnerVars >>

\* a pool thread takes the oldest queued future and enters _execute_with_retry
PoolStart(w) ==
    /\ fut[w] = "submitted"
    /\ \A v \in Slots : v < w => fut[v] # "submitted"
    /\ Cardinality({ v \in Slots : fut[v] = "running" }) < MaxWorkers(cfg)
    /\ fut' = [fut EXCEPT ![w] = "running"]
    /\ ExecEntry(w)
    /\ UNCHANGED << cfg, raceVars, beforeVars, stabVars,
                    rampVars, configVars, classVars, summaryVars,
                    unitVars, execs, mpc, nsub, batches, results, callbacks, collected,
                    load_exc, late, ret, metricsVars, runnerVars >>

TypeErrorMsg == "'>=' not supported between instances of 'int' and 'NoneType'"

\* the except handler of the collect loop, entered with str(e) = msg
CollectExcept(g, res, cbs, msg) ==
    LET g1 == RecordError([g EXCEPT !.completed_tasks = @ + 1], "unexpected_error", msg)
        chk == CheckErrorThreshold(g1, cfg)
    IN  /\ results' = Append(res, ErrorResult)
        /\ callbacks' = IF cfg.has_callback THEN Append(cbs, ErrorResult) ELSE cbs
        /\ IF cfg.stop_on_error
           THEN /\ lg' = StopObj(g1)
                /\ mpc' = "shutdown"
                /\ UNCHANGED load_exc
           ELSE /\ lg' = IF chk.ret = "True" THEN StopObj(chk.g) ELSE chk.g
                /\ mpc' = IF chk.ret = "False" THEN mpc ELSE "shutdown"
                /\ load_exc' = IF chk.ret = "TypeError" THEN "TypeError" ELSE load_exc

\* the body of the collect loop for the future of slot w
CollectBody(w) ==
    LET r == outcome[w]
        g0 == [lg EXCEPT !.completed_tasks = @ + 1]
        res == Append(results, r)
        cbs == IF cfg.has_callback THEN Append(callbacks, r) ELSE callbacks
    IN  IF r.tag # "dict"
        THEN \* result is None: result.get raises AttributeError
             CollectExcept(g0, res, cbs, AttributeErrorMsg)
        ELSE IF r.success
        THEN /\ results' = res
             /\ callbacks' = cbs
             /\ lg' = g0
             /\ mpc' = mpc
             /\ UNCHANGED load_exc
        ELSE LET g1 == RecordError(g0, r.error_type, "Unknown error")
                 chk == IF cfg.stop_on_error THEN [ret |-> "True", g |-> g1]
                        ELSE CheckErrorThreshold(g1, cfg)
             IN  IF chk.ret = "TypeError"
                 THEN CollectExcept(chk.g, res, cbs, TypeErrorMsg)
                 ELSE /\ results' = res
                      /\ callbacks' = cbs
                      /\ lg' = IF chk.ret = "True" THEN StopObj(chk.g) ELSE chk.g
                      /\ mpc' = IF chk.ret = "True" THEN "shutdown" ELSE mpc
                      /\ UNCHANGED load_exc

\* for future in as_completed(futures): one iteration
Collect(w) ==
    /\ mpc = "collect"
    /\ fut[w] = "finished"
    /\ IF lg.stop_event /\ cfg.test_type = "concurrent"
       THEN /\ mpc' = "shutdown"
            /\ fut' = [fut EXCEPT ![w] = "dropped"]
            /\ UNCHANGED << lg, results, callbacks, collected, load_exc >>
       ELSE /\ fut' = [fut EXCEPT ![w] = "collected"]
            /\ collected' = collected + 1
            /\ CollectBody(w)
    /\ UNCHANGED << cfg, raceVars, beforeVars, stabVars,
                    rampVars, configVars, classVars, summaryVars,
                    unitVars, retryVars, nsub, batches, late, ret, metricsVars, runnerVars >>

\* as_completed is exhausted
CollectDone ==
    /\ mpc = "collect"
    /\ \A w \in Slots : fut[w] \in { "none", "collected" }
    /\ mpc' = "shutdown"
    /\ UNCHANGED << cfg, raceVars, beforeVars, stabVars,
                    rampVars, configVars, classVars, summaryVars,
                    unitVars, lg, retryVars, fut, nsub, batches, results, callbacks,
                    collected, load_exc, late, ret, metricsVars, runnerVars >>

\* variant: shutdown(wait=False)
ExecutorDrainedNoWait(f) == TRUE

\* shutdown(wait=True) returns once no future is queued or running
ExecutorDrained(f) == \A w \in Slots : f[w] \notin { "submitted", "running" }

\* leaving `with ThreadPoolExecutor`: shutdown(wait=True), then the re-check
Shutdown ==
    /\ mpc = "shutdown"
    /\ ExecutorDrained(fut)
    /\ mpc' = IF load_exc # "" THEN "finally"
              ELSE IF lg.stop_event THEN "exit" ELSE "loop"
    /\ step_results' = IF load_exc = "" /\ lg.stop_event
                       THEN StableEntry(cfg, step_results) ELSE step_results
    /\ UNCHANGED << cfg, raceVars, beforeVars, stabVars,
                    ramp_users, configVars, classVars, summaryVars,
                    unitVars, lg, retryVars, fut, nsub, batches, results, callbacks,
                    collected, load_exc, late, ret, metricsVars, runnerVars >>

\* keys generate_load adds to the dictionary of the load profile
PhaseKeys == { "before_tasks_completed", "after_tasks_completed", "before_results",
               "after_results" }

\* keys of the dictionary a load profile returns
ProfileKeys(c) ==
    IF c.test_type = "ramp_up"
    THEN { "test_type", "max_users", "ramp_up_steps", "ramp_up_time", "stable_duration",
           "completed_tasks", "error_count", "error_rate", "error_statistics",
           "step_results", "results" }
    ELSE { "test_type", "concurrent_users", "target_duration", "actual_duration",
           "completed_tasks", "results" }

\* the load profile returns its dictionary to generate_load
ReturnLoad ==
    /\ mpc = "exit"
    /\ mpc' = IF cfg.has_after THEN "after" ELSE "finally"
    /\ lg' = [lg EXCEPT !.current_users = 0]
    /\ ret' = [keys |-> ProfileKeys(cfg) \cup PhaseKeys, reason |-> ""]
    /\ UNCHANGED << cfg, raceVars, beforeVars, stabVars,
                    rampVars, configVars, classVars, summaryVars,
                    unitVars, retryVars, fut, nsub, batches, results, callbacks,
                    collected, load_exc, late, metricsVars, runnerVars >>

\* _execute_after_tasks: after_func runs once, an exception of it is caught
AfterTasks(g) == [g EXCEPT !.after_results = @ + 1, !.after_tasks_completed = TRUE]

\* if after_func: self._execute_after_tasks(after_func), after the load profile
AfterPhase ==
    /\ mpc = "after"
    /\ lg' = AfterTasks(lg)
    /\ mpc' = "finally"
    /\ UNCHANGED << cfg, raceVars, beforeVars, stabVars,
                    rampVars, configVars, classVars, summaryVars,
                    unitVars, retryVars, fut, nsub, batches, results, callbacks,
                    collected, load_exc, late, ret, metricsVars, runnerVars >>

\* the finally clause of generate_load runs the after phase when it is due
AfterDue(g, c) == ~g.after_tasks_completed /\ c.has_after /\ ~g.stop_event

\* the finally clause; generate_load returns or lets the exception out
Finally ==
    /\ mpc = "finally"
    /\ lg' = [(IF AfterDue(lg, cfg) THEN AfterTasks(lg) ELSE lg) EXCEPT !.running = FALSE]
    /\ mpc' = IF load_exc # "" THEN "raised" ELSE "returned"
    /\ UNCHANGED << cfg, raceVars, beforeVars, stabVars,
                    rampVars, configVars, classVars, summaryVars,
                    unitVars, retryVars, fut, nsub, batches, results, callbacks,
                    collected, load_exc, late, ret, metricsVars, runnerVars >>

----------------------------------------------------------------------------
(* MetricsCollector: response-time statistics *)

RECURSIVE InsertSorted(_, _)
\* x put into its place in the ascending list s
InsertSorted(s, x) ==
    IF s = << >> THEN << x >>
    ELSE IF x <= Head(s) THEN << x >> \o s
    ELSE << Head(s) >> \o InsertSorted(Tail(s), x)

RECURSIVE SortList(_)
\* list.sort()
SortList(s) == IF s = << >> THEN << >> ELSE InsertSorted(SortList(Tail(s)), Head(s))

RECURSIVE MaxOf(_)
\* max(list) of a non-empty list
MaxOf(s) ==
    IF Len(s) = 1 THEN s[1]
    ELSE LET m == MaxOf(Tail(s)) IN IF Head(s) >= m THEN Head(s) ELSE m

\* the percentiles the summaries ask for, in tenths of a percent (999 is 99.9)
PercentilesUsed == { 500, 900, 950, 990, 999 }

\* variant: the index is counted from the end of the list
CalculatePercentileFromEnd(sorted_list, permille) ==
    IF sorted_list = << >> THEN 0
    ELSE LET n == Len(sorted_list)
             index == (n * permille) \div 1000
         IN  sorted_list[n - (IF index >= n THEN n - 1 ELSE index)]

\* _calculate_percentile: index = int(len * percentile / 100), capped at len - 1
CalculatePercentile(sorted_list, permille) ==
    IF sorted_list = << >> THEN 0
    ELSE LET n == Len(sorted_list)
             index == (n * permille) \div 1000
         IN  sorted_list[(IF index >= n THEN n - 1 ELSE index) + 1]

\* variant: the statistics are taken from the list as it was read
SummaryTimesAsRead(times) == times

\* response_times.sort(): the list the statistics are computed from
SummaryTimes(times) == SortList(times)

\* the response-time entries of a summary
TimeStatistics(times) ==
    LET st == SummaryTimes(times)
    IN  IF st = << >>
        THEN [max_response_time |-> 0, p50 |-> 0, p90 |-> 0, p95 |-> 0, p99 |-> 0,
              p999 |-> 0]
        ELSE [max_response_time |-> MaxOf(st),
              p50 |-> CalculatePercentile(st, 500),
              p90 |-> CalculatePercentile(st, 900),
              p95 |-> CalculatePercentile(st, 950),
              p99 |-> CalculatePercentile(st, 990),
              p999 |-> CalculatePercentile(st, 999)]

\* the response-time entries of one transaction in _get_transaction_metrics
TransactionStatistics(times) ==
    LET st == SummaryTimes(times)
    IN  IF st = << >>
        THEN [max_response_time |-> 0, p50 |-> 0, p90 |-> 0, p95 |-> 0, p99 |-> 0]
        ELSE [max_response_time |-> MaxOf(st),
              p50 |-> CalculatePercentile(st, 500),
              p90 |-> CalculatePercentile(st, 900),
              p95 |-> CalculatePercentile(st, 950),
              p99 |-> CalculatePercentile(st, 990)]

\* local variables of get_summary_metrics before anything is read
EmptySummary ==
    [total_requests |-> 0, successful_requests |-> 0, failed_requests |-> 0,
     times |-> TimeStatistics(<< >>), max_concurrent_users |-> 0]

\* no call has returned since the collector last changed
NoSummary ==
    [kind |-> "none", summary |-> EmptySummary,
     transaction_metrics |-> TransactionStatistics(<< >>), after_update |-> FALSE]

----------------------------------------------------------------------------
(* MetricsCollector.record_request, called from several threads *)

\* if not self._lock
LockMissing(l) == l = 0

\* the lock object `with self._lock` enters
LockToEnter(l) == l

\* record_request is called with success = ok
CallRecord(t, ok) ==
    /\ tpc[t] = "idle"
    /\ tcalls[t] < MaxCalls
    /\ tcalls' = [tcalls EXCEPT ![t] = @ + 1]
    /\ targ' = [targ EXCEPT ![t] = ok]
    /\ tpc' = [tpc EXCEPT ![t] = IF LockMissing(mc_lock) THEN "create" ELSE "with"]
    /\ summary' = NoSummary
    /\ prev_summary' = NoSummary
    /\ UNCHANGED << mc, mc_lock, lock_owner, tlock, treg, mc_done >>
    /\ UNCHANGED << cfg, raceVars, beforeVars, stabVars, rampVars, configVars, classVars,
                    spc, skind, sreg, mc_before, updated, unitVars, lg, retryVars, loadVars,
                    runnerVars >>

\* self._lock = threading.Lock()
CreateLock(t) ==
    /\ tpc[t] = "create"
    /\ mc_lock' = t
    /\ tpc' = [tpc EXCEPT ![t] = "with"]
    /\ UNCHANGED << mc, lock_owner, tlock, treg, targ, tcalls, mc_done >>
    /\ UNCHANGED << cfg, raceVars, beforeVars, stabVars, rampVars, configVars, classVars,
                    summaryVars, unitVars, lg, retryVars, loadVars, runnerVars >>

\* with self._lock: the attribute is read
EnterWith(t) ==
    /\ tpc[t] = "with"
    /\ tlock' = [tlock EXCEPT ![t] = LockToEnter(mc_lock)]
    /\ tpc' = [tpc EXCEPT ![t] = "acquire"]
    /\ UNCHANGED << mc, mc_lock, lock_owner, treg, targ, tcalls, mc_done >>
    /\ UNCHANGED << cfg, raceVars, beforeVars, stabVars, rampVars, configVars, classVars,
                    summaryVars, unitVars, lg, retryVars, loadVars, runnerVars >>

\* with self._lock: the lock is acquired
Acquire(t) ==
    /\ tpc[t] = "acquire"
    /\ lock_owner[tlock[t]] = 0
    /\ lock_owner' = [lock_owner EXCEPT ![tlock[t]] = t]
    /\ tpc' = [tpc EXCEPT ![t] = "read_total"]
    /\ UNCHANGED << mc, mc_lock, tlock, treg, targ, tcalls, mc_done >>
    /\ UNCHANGED << cfg, raceVars, beforeVars, stabVars, rampVars, configVars, classVars,
                    summaryVars, unitVars, lg, retryVars, loadVars, runnerVars >>

\* self._requests.append(record); self._metrics['total_requests'] += 1 (load)
ReadTotal(t) ==
    /\ tpc[t] = "read_total"
    /\ mc' = [mc EXCEPT !.requests = @ + 1]
    /\ treg' = [treg EXCEPT ![t] = mc.total_requests]
    /\ tpc' = [tpc EXCEPT ![t] = "write_total"]
    /\ UNCHANGED << mc_lock, lock_owner, tlock, targ, tcalls, mc_done >>
    /\ UNCHANGED << cfg, raceVars, beforeVars, stabVars, rampVars, configVars, classVars,
                    summaryVars, unitVars, lg, retryVars, loadVars, runnerVars >>

\* self._metrics['total_requests'] += 1 (store)
WriteTotal(t) ==
    /\ tpc[t] = "write_total"
    /\ mc' = [mc EXCEPT !.total_requests = treg[t] + 1]
    /\ tpc' = [tpc EXCEPT ![t] = "read_count"]
    /\ UNCHANGED << mc_lock, lock_owner, tlock, treg, targ, tcalls, mc_done >>
    /\ UNCHANGED << cfg, raceVars, beforeVars, stabVars, rampVars, configVars, classVars,
                    summaryVars, unitVars, lg, retryVars, loadVars, runnerVars >>

\* successful_requests += 1 or failed_requests += 1 (load)
ReadCount(t) ==
    /\ tpc[t] = "read_count"
    /\ treg' = [treg EXCEPT ![t] = IF targ[t] THEN mc.successful_requests
                                   ELSE mc.failed_requests]
    /\ tpc' = [tpc EXCEPT ![t] = "write_count"]
    /\ UNCHANGED << mc, mc_lock, lock_owner, tlock, targ, tcalls, mc_done >>
    /\ UNCHANGED << cfg, raceVars, beforeVars, stabVars, rampVars, configVars, classVars,
                    summaryVars, unitVars, lg, retryVars, loadVars, runnerVars >>

\* successful_requests += 1 or failed_requests += 1 (store), response time
\* appended; thread t passes response_time = t
WriteCount(t) ==
    /\ tpc[t] = "write_count"
    /\ mc' = IF targ[t]
             THEN [mc EXCEPT !.successful_requests = treg[t] + 1,
                             !.response_times = Append(@, t)]
             ELSE [mc EXCEPT !.failed_requests = treg[t] + 1]
    /\ tpc' = [tpc EXCEPT ![t] = "release"]
    /\ UNCHANGED << mc_lock, lock_owner, tlock, treg, targ, tcalls, mc_done >>
    /\ UNCHANGED << cfg, raceVars, beforeVars, stabVars, rampVars, configVars, classVars,
                    summaryVars, unitVars, lg, retryVars, loadVars, runnerVars >>

\* the with block is left and record_request returns
Release(t) ==
    /\ tpc[t] = "release"
    /\ lock_owner' = [lock_owner EXCEPT ![tlock[t]] = 0]
    /\ tpc' = [tpc EXCEPT ![t] = "idle"]
    /\ mc_done' = mc_done + 1
    /\ UNCHANGED << mc, mc_lock, tlock, treg, targ, tcalls >>
    /\ UNCHANGED << cfg, raceVars, beforeVars, stabVars, rampVars, configVars, classVars,
                    summaryVars, unitVars, lg, retryVars, loadVars, runnerVars >>

\* index of the record of time_series whose timestamp is the given one, found by the
\* scan from the end; 0 when there is none
ExistingRecord(time_series, timestamp) ==
    LET found == { i \in 1..Len(time_series) : time_series[i].timestamp = timestamp }
    IN  IF found = {} THEN 0 ELSE CHOOSE i \in found : \A j \in found : j <= i

\* _record_time_series_data: update the record of the second or append a new one
\* (the counters of a record; its list of response times is not kept here)
RecordTimeSeriesData(time_series, timestamp, success) ==
    LET i == ExistingRecord(time_series, timestamp)
    IN  IF i # 0
        THEN [time_series EXCEPT
                 ![i].total_requests = @ + 1,
                 ![i].successful_requests = IF success THEN @ + 1 ELSE @,
                 ![i].failed_requests = IF success THEN @ ELSE @ + 1]
        ELSE Append(time_series,
                    [timestamp |-> timestamp,
                     total_requests |-> 1,
                     successful_requests |-> IF success THEN 1 ELSE 0,
                     failed_requests |-> IF success THEN 0 ELSE 1])

\* a whole record_request call made while no other call is running
RecordRequest(ok, rt, tx, start_second) ==
    /\ spc = "idle"
    /\ \A t \in Threads : tpc[t] = "idle"
    /\ mc.requests < MaxSamples
    /\ mc_lock' = IF LockMissing(mc_lock) THEN 1 ELSE mc_lock
    /\ mc' = [mc EXCEPT !.requests = @ + 1,
                        !.total_requests = @ + 1,
                        !.successful_requests = IF ok THEN @ + 1 ELSE @,
                        !.failed_requests = IF ok THEN @ ELSE @ + 1,
                        !.response_times = IF ok THEN Append(@, rt) ELSE @,
                        !.tx_response_times = IF ok /\ tx THEN Append(@, rt) ELSE @,
                        !.time_series = RecordTimeSeriesData(@, start_second, ok)]
    /\ mc_done' = mc_done + 1
    /\ summary' = NoSummary
    /\ prev_summary' = NoSummary
    /\ UNCHANGED << cfg, raceVars, beforeVars, stabVars, rampVars, configVars, classVars,
                    spc, skind, sreg, mc_before, updated, unitVars, lg, retryVars, loadVars,
                    lock_owner, tpc, tlock, treg, targ, tcalls, runnerVars >>

\* a whole update_concurrent_users call made while no other call is running
UpdateConcurrentUsers(current_users) ==
    /\ spc = "idle"
    /\ \A t \in Threads : tpc[t] = "idle"
    /\ mc_lock' = IF LockMissing(mc_lock) THEN 1 ELSE mc_lock
    /\ mc' = [mc EXCEPT !.concurrent_users = IF current_users > @ THEN current_users ELSE @]
    /\ updated' = TRUE
    /\ UNCHANGED << cfg, raceVars, beforeVars, stabVars, rampVars, configVars, classVars,
                    spc, skind, sreg, summary, prev_summary, mc_before, unitVars, lg,
                    retryVars, loadVars, lock_owner, tpc, tlock, treg, targ, tcalls,
                    mc_done, runnerVars >>

----------------------------------------------------------------------------
(* MetricsCollector.get_summary_metrics and get_all_metrics *)

SummaryKinds == { "summary", "all" }

\* the call starts; total_requests = self._metrics['total_requests']
SummaryReadTotal(kind) ==
    /\ spc = "idle"
    /\ skind' = kind
    /\ mc_before' = mc
    /\ sreg' = [EmptySummary EXCEPT !.total_requests = mc.total_requests]
    /\ spc' = "read_success"
    /\ UNCHANGED << cfg, raceVars, beforeVars, stabVars, rampVars, configVars, classVars,
                    summary, prev_summary, updated, unitVars, lg, retryVars, loadVars,
                    metricsVars, runnerVars >>

\* successful_requests = self._metrics['successful_requests']
SummaryReadSuccess ==
    /\ spc = "read_success"
    /\ sreg' = [sreg EXCEPT !.successful_requests = mc.successful_requests]
    /\ spc' = "read_failed"
    /\ UNCHANGED << cfg, raceVars, beforeVars, stabVars, rampVars, configVars, classVars,
                    skind, summary, prev_summary, mc_before, updated, unitVars, lg, retryVars,
                    loadVars, metricsVars, runnerVars >>

\* failed_requests = self._metrics['failed_requests']
SummaryReadFailed ==
    /\ spc = "read_failed"
    /\ sreg' = [sreg EXCEPT !.failed_requests = mc.failed_requests]
    /\ spc' = "statistics"
    /\ UNCHANGED << cfg, raceVars, beforeVars, stabVars, rampVars, configVars, classVars,
                    skind, summary, prev_summary, mc_before, updated, unitVars, lg, retryVars,
                    loadVars, metricsVars, runnerVars >>

\* response_times.sort() in place, the statistics, and the return of
\* get_summary_metrics
SummaryStatistics ==
    /\ spc = "statistics"
    /\ mc' = [mc EXCEPT !.response_times = SortList(@)]
    /\ LET r == [sreg EXCEPT !.times = TimeStatistics(mc.response_times),
                             !.max_concurrent_users = mc.concurrent_users]
       IN  IF skind = "all"
           THEN /\ sreg' = r
                /\ spc' = "transactions"
                /\ UNCHANGED << summary, prev_summary, updated >>
           ELSE /\ sreg' = r
                /\ spc' = "idle"
                /\ prev_summary' = summary
                /\ summary' = [kind |-> skind, summary |-> r,
                               transaction_metrics |-> TransactionStatistics(<< >>),
                               after_update |-> updated]
                /\ updated' = FALSE
    /\ UNCHANGED << cfg, raceVars, beforeVars, stabVars, rampVars,
                    configVars, classVars, skind, mc_before, unitVars, lg, retryVars,
                    loadVars,
                    mc_lock, lock_owner, tpc, tlock, treg, targ, tcalls, mc_done,
                    runnerVars >>

\* _get_transaction_metrics (the transaction's list is sorted in place when it is
\* not empty) and the return of get_all_metrics
TransactionMetrics ==
    /\ spc = "transactions"
    /\ mc' = [mc EXCEPT !.tx_response_times = SortList(@)]
    /\ spc' = "idle"
    /\ prev_summary' = summary
    /\ summary' = [kind |-> skind, summary |-> sreg,
                   transaction_metrics |-> TransactionStatistics(mc.tx_response_times),
                   after_update |-> updated]
    /\ updated' = FALSE
    /\ UNCHANGED << cfg, raceVars, beforeVars, stabVars, rampVars, configVars, classVars,
                    skind, sreg, mc_before, unitVars, lg, retryVars, loadVars,
                    mc_lock, lock_owner, tpc, tlock, treg, targ, tcalls, mc_done,
                    runnerVars >>

----------------------------------------------------------------------------
(* PerformanceRunner: fluent configuration and run() *)

TestTypes == { "tps", "qps", "concurrent", "ramp_up", "stability" }

\* parameters of LoadGenerator.generate_load and generate_concurrent_load
GenerateLoadParams == { "task_func", "result_callback", "before_func", "after_func" }
GenerateLoadRequired == { "task_func" }
GenerateConcurrentLoadParams ==
    { "concurrent_users", "duration", "before_func", "after_func" }
GenerateConcurrentLoadRequired == { "concurrent_users", "duration" }

\* keyword arguments the _run_*_test helpers pass
RunKwargs(test_type) ==
    CASE test_type = "concurrent" ->
             { "test_func", "duration", "concurrent_users", "before_func",
               "after_func", "stop_on_error" }
      [] test_type \in { "tps", "qps" } ->
             { "test_type", "test_func", "duration", "target_tps", "ramp_up_time",
               "ramp_up_steps", "before_func", "after_func", "stop_on_error" }
      [] test_type = "ramp_up" ->
             { "test_type", "test_func", "duration", "concurrent_users",
               "ramp_up_time", "ramp_up_steps", "before_func", "after_func",
               "stop_on_error" }
      [] OTHER ->
             { "test_type", "test_func", "duration", "concurrent_users",
               "check_interval", "before_func", "after_func", "stop_on_error",
               "stability_threshold" }

\* Python binds a keyword call: every keyword is a parameter, none required is missing
CallBinds(kwargs, params, required) == kwargs \subseteq params /\ required \subseteq kwargs

\* the call a _run_*_test helper makes on the LoadGenerator
RunHelper(test_type) ==
    IF test_type = "concurrent"
    THEN IF CallBinds(RunKwargs(test_type), GenerateConcurrentLoadParams,
                      GenerateConcurrentLoadRequired)
         THEN "returned" ELSE "TypeError"
    ELSE IF CallBinds(RunKwargs(test_type), GenerateLoadParams, GenerateLoadRequired)
         THEN "returned" ELSE "TypeError"

\* PerformanceRunner.run(): "returned" or the exception it raises
RunOutcome(r) ==
    IF ~r.api_adapter /\ ~r.test_func /\ r.test_case = "unset" THEN "AttributeError"
    ELSE IF ~r.api_adapter /\ ~r.test_func /\ r.test_case = "None" THEN "ValueError"
    ELSE IF r.test_case = "unset" THEN "AttributeError"
    ELSE RunHelper(r.test_type)

\* a source of load has been configured
Configured(r) == r.api_adapter \/ r.test_func \/ r.test_case = "set"

SetTestType(t) ==
    /\ runner' = [runner EXCEPT !.test_type = t]
    /\ UNCHANGED << cfg, raceVars, beforeVars, stabVars,
                    rampVars, configVars, classVars, summaryVars,
                    unitVars, lg, retryVars, loadVars, metricsVars, run_state >>

ApiCall ==
    /\ runner' = [runner EXCEPT !.api_adapter = TRUE]
    /\ UNCHANGED << cfg, raceVars, beforeVars, stabVars,
                    rampVars, configVars, classVars, summaryVars,
                    unitVars, lg, retryVars, loadVars, metricsVars, run_state >>

TestFunction ==
    /\ runner' = [runner EXCEPT !.test_func = TRUE, !.test_case = "None"]
    /\ UNCHANGED << cfg, raceVars, beforeVars, stabVars,
                    rampVars, configVars, classVars, summaryVars,
                    unitVars, lg, retryVars, loadVars, metricsVars, run_state >>

TestCase ==
    /\ runner' = [runner EXCEPT !.test_case = "set", !.test_func = FALSE]
    /\ UNCHANGED << cfg, raceVars, beforeVars, stabVars,
                    rampVars, configVars, classVars, summaryVars,
                    unitVars, lg, retryVars, loadVars, metricsVars, run_state >>

BeforeTask ==
    /\ runner' = [runner EXCEPT !.before_func = TRUE]
    /\ UNCHANGED << cfg, raceVars, beforeVars, stabVars,
                    rampVars, configVars, classVars, summaryVars,
                    unitVars, lg, retryVars, loadVars, metricsVars, run_state >>

AfterTask ==
    /\ runner' = [runner EXCEPT !.after_func = TRUE]
    /\ UNCHANGED << cfg, raceVars, beforeVars, stabVars,
                    rampVars, configVars, classVars, summaryVars,
                    unitVars, lg, retryVars, loadVars, metricsVars, run_state >>

StopOnError(b) ==
    /\ runner' = [runner EXCEPT !.stop_on_error = b]
    /\ UNCHANGED << cfg, raceVars, beforeVars, stabVars,
                    rampVars, configVars, classVars, summaryVars,
                    unitVars, lg, retryVars, loadVars, metricsVars, run_state >>

Run ==
    /\ run_state' = [outcome |-> RunOutcome(runner), configured |-> Configured(runner),
                     test_type |-> runner.test_type, runs |-> 1]
    /\ UNCHANGED << cfg, raceVars, beforeVars, stabVars, rampVars, configVars, classVars,
                    summaryVars, unitVars, lg, retryVars, loadVars, metricsVars, runner >>

----------------------------------------------------------------------------
(* PerformanceRunner: configuration of the TestConfig *)

\* argument values of the configuration calls
ConfigArgs == (0 - 1) .. MaxArg

\* TestConfig(); an Optional field is the empty set for None, else { value }
DefaultTestConfig ==
    [ duration |-> 60, concurrent_users |-> 10, ramp_up_time |-> 0, ramp_up_steps |-> 0,
      target_tps |-> {}, target_qps |-> {}, max_thread_pool_size |-> 1000,
      stability_duration |-> 3600, stability_check_interval |-> 600 ]

NoCall == [ name |-> "none", args |-> << >>, raised |-> FALSE ]

\* one configuration call: it raises ValueError and leaves the configuration alone,
\* or it stores new_config and the test type
ConfigCall(name, args, raises, new_config, new_type) ==
    /\ ncalls' = ncalls + 1
    /\ config_call' = [ name |-> name, args |-> args, raised |-> raises ]
    /\ IF raises
       THEN UNCHANGED << test_config, runner >>
       ELSE /\ test_config' = new_config
            /\ runner' = [runner EXCEPT !.test_type = new_type]
    /\ UNCHANGED << cfg, raceVars, beforeVars, stabVars, rampVars,
                    classVars, summaryVars, unitVars, lg, retryVars, loadVars,
                    metricsVars, run_state >>

Duration(seconds) ==
    /\ ncalls < MaxConfigCalls
    /\ ConfigCall("duration", [seconds |-> seconds], FALSE,
                  [test_config EXCEPT !.duration = seconds], runner.test_type)

Concurrent(concurrent_users, duration, ramp_up_time) ==
    /\ ncalls < MaxConfigCalls
    /\ ConfigCall("concurrent",
                  [concurrent_users |-> concurrent_users, duration |-> duration,
                   ramp_up_time |-> ramp_up_time],
                  concurrent_users <= 0 \/ duration <= 0 \/ ramp_up_time < 0,
                  [test_config EXCEPT !.concurrent_users = concurrent_users,
                                      !.duration = duration,
                                      !.ramp_up_time = ramp_up_time],
                  "concurrent")

ConcurrentUsers(users) ==
    /\ ncalls < MaxConfigCalls
    /\ ConfigCall("concurrent_users", [users |-> users], FALSE,
                  [test_config EXCEPT !.concurrent_users = users], runner.test_type)

RampUp(time_seconds, steps) ==
    /\ ncalls < MaxConfigCalls
    /\ ConfigCall("ramp_up", [time_seconds |-> time_seconds, steps |-> steps], FALSE,
                  [test_config EXCEPT !.ramp_up_time = time_seconds,
                                      !.ramp_up_steps = steps],
                  "ramp_up")

TargetTps(tps) ==
    /\ ncalls < MaxConfigCalls
    /\ ConfigCall("target_tps", [tps |-> tps], FALSE,
                  [test_config EXCEPT !.target_tps = { tps }], "tps")

Tps(target_tps, duration, ramp_up_time, ramp_up_steps) ==
    /\ ncalls < MaxConfigCalls
    /\ ConfigCall("tps",
                  [target_tps |-> target_tps, duration |-> duration,
                   ramp_up_time |-> ramp_up_time, ramp_up_steps |-> ramp_up_steps],
                  target_tps < 0 \/ duration <= 0 \/ ramp_up_time < 0 \/ ramp_up_steps < 1,
                  [test_config EXCEPT !.target_tps = { target_tps },
                                      !.duration = duration,
                                      !.ramp_up_time = ramp_up_time,
                                      !.ramp_up_steps = ramp_up_steps],
                  "tps")

TargetQps(qps) ==
    /\ ncalls < MaxConfigCalls
    /\ ConfigCall("target_qps", [qps |-> qps], FALSE,
                  [test_config EXCEPT !.target_qps = { qps }], "qps")

Qps(target_qps, duration, ramp_up_time, ramp_up_steps) ==
    /\ ncalls < MaxConfigCalls
    /\ ConfigCall("qps",
                  [target_qps |-> target_qps, duration |-> duration,
                   ramp_up_time |-> ramp_up_time, ramp_up_steps |-> ramp_up_steps],
                  target_qps < 0 \/ duration <= 0 \/ ramp_up_time < 0 \/ ramp_up_steps < 1,
                  [test_config EXCEPT !.target_qps = { target_qps },
                                      !.duration = duration,
                                      !.ramp_up_time = ramp_up_time,
                                      !.ramp_up_steps = ramp_up_steps],
                  "qps")

\* stability() called without threshold keywords: the default thresholds pass its checks
Stability(duration, concurrent_users, check_interval) ==
    /\ ncalls < MaxConfigCalls
    /\ ConfigCall("stability",
                  [duration |-> duration, concurrent_users |-> concurrent_users,
                   check_interval |-> check_interval],
                  duration <= 0 \/ concurrent_users <= 0 \/ check_interval <= 0,
                  [test_config EXCEPT !.stability_duration = duration,
                                      !.concurrent_users = concurrent_users,
                                      !.stability_check_interval = check_interval],
                  "stability")

RampUpSteps(steps) ==
    /\ ncalls < MaxConfigCalls
    /\ ConfigCall("ramp_up_steps", [steps |-> steps], steps < 1,
                  [test_config EXCEPT !.ramp_up_steps = steps], runner.test_type)

RampUpTime(seconds) ==
    /\ ncalls < MaxConfigCalls
    /\ ConfigCall("ramp_up_time", [seconds |-> seconds], seconds < 0,
                  [test_config EXCEPT !.ramp_up_time = seconds], runner.test_type)

SetMaxThreadPoolSize(size) ==
    /\ ncalls < MaxConfigCalls
    /\ ConfigCall("set_max_thread_pool_size", [size |-> size], size <= 0,
                  [test_config EXCEPT !.max_thread_pool_size = size], runner.test_type)

----------------------------------------------------------------------------
(* Initial states *)

NoThresholds == << >>

DefaultRetryable == { "timeout", "connection_error" }

\* TestConfig.stability_threshold; the error rate is kept in percent, times in seconds
DefaultStabilityThreshold ==
    [ error_rate |-> 5, response_time_p95 |-> 1, response_time_p99 |-> 2 ]

DefaultConfig ==
    [ max_retries |-> 0, retry_delay |-> 1, retryable_errors |-> DefaultRetryable,
      stop_on_error |-> FALSE, error_threshold |-> NoneV,
      error_rate_threshold |-> NoneV, consecutive_error_threshold |-> NoneV,
      error_type_thresholds |-> NoThresholds, concurrent_users |-> 1,
      max_thread_pool_size |-> 0, has_callback |-> TRUE,
      test_type |-> "concurrent", ramp_up_steps |-> 0,
      has_before |-> FALSE, has_after |-> FALSE,
      stability_threshold |-> DefaultStabilityThreshold ]

\* LoadGenerator.__init__ and _init_error_handling_config
NewLoadGenerator ==
    [ stop_event |-> FALSE, running |-> FALSE, current_users |-> 0,
      completed_tasks |-> 0, error_count |-> 0, total_errors |-> 0,
      consecutive_errors |-> 0, consecutive_error_count |-> 0,
      before_tasks_completed |-> FALSE, after_tasks_completed |-> FALSE,
      after_results |-> 0,
      error_statistics |->
          [k \in { "total_errors", "timeout", "connection_error", "business_error",
                   "system_error", "unexpected_error", "other_error" } |-> 0],
      error_stats |->
          [k \in { "total_errors", "timeout", "connection_error", "business_error",
                   "system_error", "unexpected_error", "other_error" } |-> 0],
      stats_aliased |-> TRUE,
      error_details |-> << >> ]

\* MetricsCollector.__init__
NewMetrics ==
    [ total_requests |-> 0, successful_requests |-> 0, failed_requests |-> 0,
      requests |-> 0, response_times |-> << >>, tx_response_times |-> << >>,
      concurrent_users |-> 0, time_series |-> << >> ]

\* PerformanceRunner.__init__
NewRunner ==
    [ api_adapter |-> FALSE, test_func |-> FALSE, test_case |-> "unset",
      test_type |-> "tps", before_func |-> FALSE, after_func |-> FALSE,
      stop_on_error |-> FALSE ]

\* generate_load has not returned
NoReturn == [keys |-> {}, reason |-> ""]

NotRun == [outcome |-> "new", configured |-> FALSE, test_type |-> "tps", runs |-> 0]

InitObjects ==
    /\ test_config = DefaultTestConfig
    /\ config_call = NoCall
    /\ ncalls = 0
    /\ lg = NewLoadGenerator
    /\ wpc = [w \in Slots |-> "idle"]
    /\ attempt = [w \in Slots |-> 0]
    /\ calls = [w \in Slots |-> 0]
    /\ sleeps = [w \in Slots |-> << >>]
    /\ hist = [w \in Slots |-> << >>]
    /\ exc = [w \in Slots |-> NoExc]
    /\ outcome = [w \in Slots |-> NoneResult]
    /\ decidedS = [w \in Slots |-> << >>]
    /\ execs = 0
    /\ mpc = "idle"
    /\ fut = [w \in Slots |-> "none"]
    /\ nsub = 0
    /\ batches = 0
    /\ results = << >>
    /\ callbacks = << >>
    /\ collected = 0
    /\ load_exc = ""
    /\ late = 0
    /\ ret = NoReturn
    /\ mc = NewMetrics
    /\ mc_lock = 0
    /\ lock_owner = [l \in Threads |-> 0]
    /\ tpc = [t \in Threads |-> "idle"]
    /\ tlock = [t \in Threads |-> 0]
    /\ treg = [t \in Threads |-> 0]
    /\ targ = [t \in Threads |-> TRUE]
    /\ tcalls = [t \in Threads |-> 0]
    /\ mc_done = 0
    /\ runner = NewRunner
    /\ run_state = NotRun
    /\ nrec = 0
    /\ check_ret = NotChecked
    /\ before_did = ""
    /\ ramp_users = << >>
    /\ step_results = << >>
    /\ epc = [t \in Threads |-> "idle"]
    /\ ereg = [t \in Threads |-> 0]
    /\ etype = [t \in Threads |-> ""]
    /\ ekinds = [k \in RaceTypes |-> 0]
    /\ before_fut = "none"
    /\ before_calls = 0
    /\ before_results = << >>
    /\ st_pc = "idle"
    /\ st_results = << >>
    /\ interval_results = << >>
    /\ st_checks = << >>
    /\ st_mark = 0
    /\ st_running = 0
    /\ st_done = << >>
    /\ st_submitted = 0
    /\ st_iters = 0
    /\ spc = "idle"
    /\ skind = "summary"
    /\ sreg = EmptySummary
    /\ summary = NoSummary
    /\ prev_summary = NoSummary
    /\ mc_before = NewMetrics
    /\ updated = FALSE
    /\ cout = ""

\* the objects after construction, no exception handed to the classifier
InitRest == InitObjects /\ cin = NoExc

RetryableChoices ==
    { DefaultRetryable, { "timeout" }, {}, { "connection_error", "other_error" } }

\* configurations of the retry executor
InitRetry ==
    /\ cfg \in { [DefaultConfig EXCEPT !.max_retries = m, !.retry_delay = d,
                                       !.retryable_errors = r] :
                 m \in 0..MaxRetriesBound, d \in 1..MaxDelay, r \in RetryableChoices }
    /\ InitRest

\* the retry executor called directly, with stop() arriving at any moment
NextRetry ==
    \/ \E w \in { 1 } : DirectCall(w)
    \/ \E w \in Slots, v \in TaskReturns : TaskReturn(w, v)
    \/ \E w \in Slots, e \in TaskExceptions : TaskRaise(w, e)
    \/ \E w \in Slots : HandleError(w)
    \/ \E w \in Slots : Wake(w)
    \/ Stop

SpecRetry == InitRetry /\ [][NextRetry]_vars

LoadExceptions ==
    { [cls |-> "ValueError", msg |-> "Invalid value"],
      [cls |-> "socket.timeout", msg |-> "Connection timed out"] }

LoadReturns == { "dict_ok", "dict_fail" }

\* configurations of a concurrent run
InitConcurrent ==
    /\ cfg \in { [DefaultConfig EXCEPT !.max_retries = m, !.stop_on_error = s,
                                       !.error_threshold = et,
                                       !.consecutive_error_threshold = ct,
                                       !.concurrent_users = u,
                                       !.max_thread_pool_size = p] :
                 m \in { 0, 1 }, s \in BOOLEAN, et \in { NoneV, 2 },
                 ct \in { NoneV, 3 }, u \in 1..MaxUsers, p \in { 0, 1 } }
    /\ InitRest

\* one generate_load call of a concurrent run
NextConcurrent ==
    \/ GenerateLoad
    \/ \E expired \in BOOLEAN : LoopCheck(expired)
    \/ \E expired \in BOOLEAN : SubmitCheck(expired)
    \/ Submit
    \/ \E w \in Slots : PoolStart(w)
    \/ \E w \in Slots, v \in LoadReturns : TaskReturn(w, v)
    \/ \E w \in Slots, e \in LoadExceptions : TaskRaise(w, e)
    \/ \E w \in Slots : HandleError(w)
    \/ \E w \in Slots : Wake(w)
    \/ \E w \in Slots : Collect(w)
    \/ CollectDone
    \/ Shutdown
    \/ ReturnLoad
    \/ Finally
    \/ Stop

SpecConcurrent == InitConcurrent /\ [][NextConcurrent]_vars

\* load profile and ramp_up_steps of the configurations below
DispatchProfiles == { << "concurrent", 0 >>, << "ramp_up", 0 >>, << "ramp_up", 1 >> }

\* configurations used for the dispatch and cancellation properties
InitDispatch ==
    /\ cfg \in { [DefaultConfig EXCEPT !.stop_on_error = s,
                                       !.consecutive_error_threshold = ct,
                                       !.concurrent_users = u,
                                       !.max_thread_pool_size = p,
                                       !.test_type = pr[1],
                                       !.ramp_up_steps = pr[2]] :
                 s \in BOOLEAN, ct \in { NoneV, 3 }, u \in 1..MaxUsers, p \in { 0, 1 },
                 pr \in DispatchProfiles }
    /\ InitRest

DispatchExceptions == { [cls |-> "ValueError", msg |-> "Invalid value"] }

DispatchReturns == { "dict_ok" }

\* one generate_load call whose tasks succeed or fail without being retried
NextDispatch ==
    \/ GenerateLoad
    \/ RampPhase
    \/ \E expired \in BOOLEAN : LoopCheck(expired)
    \/ \E expired \in BOOLEAN : SubmitCheck(expired)
    \/ Submit
    \/ \E w \in Slots : PoolStart(w)
    \/ \E w \in Slots, v \in DispatchReturns : TaskReturn(w, v)
    \/ \E w \in Slots, e \in DispatchExceptions : TaskRaise(w, e)
    \/ \E w \in Slots : HandleError(w)
    \/ \E w \in Slots : Collect(w)
    \/ CollectDone
    \/ Shutdown
    \/ ReturnLoad
    \/ Finally
    \/ Stop

SpecDispatch == InitDispatch /\ [][NextDispatch]_vars

\* a concurrent run on its own, for its termination
InitTermination ==
    /\ cfg \in { [DefaultConfig EXCEPT !.stop_on_error = s,
                                       !.consecutive_error_threshold = ct,
                                       !.concurrent_users = u,
                                       !.max_thread_pool_size = p] :
                 s \in BOOLEAN, ct \in { NoneV, 3 }, u \in 1..MaxUsers, p \in { 0, 1 } }
    /\ InitRest

\* the steps of generate_load's own threads: the main thread and the pool threads
RunStep ==
    \/ GenerateLoad
    \/ \E expired \in BOOLEAN : LoopCheck(expired)
    \/ \E expired \in BOOLEAN : SubmitCheck(expired)
    \/ Submit
    \/ \E w \in Slots : PoolStart(w)
    \/ \E w \in Slots, v \in DispatchReturns : TaskReturn(w, v)
    \/ \E w \in Slots, e \in DispatchExceptions : TaskRaise(w, e)
    \/ \E w \in Slots : HandleError(w)
    \/ \E w \in Slots : Collect(w)
    \/ CollectDone
    \/ Shutdown
    \/ ReturnLoad
    \/ Finally

NextTermination == RunStep \/ Stop

\* every thread of the run keeps being scheduled, every task invocation ends and
\* the deadline passes; stop() from outside may or may not come
SpecTermination == InitTermination /\ [][NextTermination]_vars /\ WF_vars(RunStep)

\* _record_error called on the generator before generate_load, as the unit tests do
PriorError(t) ==
    /\ mpc = "idle"
    /\ RecordErrorCall(t)

InitCounters ==
    /\ cfg \in { [DefaultConfig EXCEPT !.stop_on_error = s, !.concurrent_users = u] :
                 s \in BOOLEAN, u \in 1..MaxUsers }
    /\ InitRest

\* errors recorded on a generator, then one concurrent run of it
NextCounters ==
    \/ \E t \in RecordedTypes : PriorError(t)
    \/ RunStep

SpecCounters == InitCounters /\ [][NextCounters]_vars

\* what before_func does when the Before phase runs it
BeforeOutcomes == { "dict_ok", "dict_fail", "raise" }

InitPhases ==
    /\ cfg \in { [DefaultConfig EXCEPT !.stop_on_error = s,
                                       !.concurrent_users = u,
                                       !.test_type = pr[1],
                                       !.ramp_up_steps = pr[2],
                                       !.has_before = hb,
                                       !.has_after = ha] :
                     s \in BOOLEAN, u \in 1..MaxUsers, pr \in DispatchProfiles,
                     hb \in BOOLEAN, ha \in BOOLEAN }
    /\ InitRest

\* generate_load with its Before, load and After phases
NextPhases ==
    \/ BeforeSubmit
    \/ \E ok \in BOOLEAN : BeforeFuture(ok)
    \/ \E b \in BeforeOutcomes : BeforePhase(b)
    \/ BeforeCheck
    \/ AfterPhase
    \/ NextDispatch

SpecPhases == InitPhases /\ [][NextPhases]_vars

ThresholdChoices == { NoThresholds, "business_error" :> 2 }

InitErrors ==
    /\ cfg \in { [DefaultConfig EXCEPT !.error_threshold = et,
                                       !.error_rate_threshold = rt,
                                       !.consecutive_error_threshold = ct,
                                       !.error_type_thresholds = tt] :
                     et \in { NoneV, 2 }, rt \in { NoneV, 50 }, ct \in { NoneV, 2 },
                     tt \in ThresholdChoices }
    /\ InitRest

NextErrors ==
    \/ \E t \in RecordedTypes : RecordErrorCall(t)
    \/ TaskCompleted
    \/ CheckThresholdCall

SpecErrors == InitErrors /\ [][NextErrors]_vars

InitMetrics == cfg = DefaultConfig /\ InitRest

\* threads recording requests on one collector
NextMetrics ==
    \/ \E t \in Threads, ok \in BOOLEAN : CallRecord(t, ok)
    \/ \E t \in Threads : CreateLock(t)
    \/ \E t \in Threads : EnterWith(t)
    \/ \E t \in Threads : Acquire(t)
    \/ \E t \in Threads : ReadTotal(t)
    \/ \E t \in Threads : WriteTotal(t)
    \/ \E t \in Threads : ReadCount(t)
    \/ \E t \in Threads : WriteCount(t)
    \/ \E t \in Threads : Release(t)

SpecMetrics == InitMetrics /\ [][NextMetrics]_vars

\* str(e) of the exceptions handed to the classifier
ExcMessages == { "Invalid value", "request timeout", "connect timeout",
                 "Connection refused", "Connection timed out", "" }

InitClassify ==
    /\ cfg = DefaultConfig
    /\ cin \in [cls : ExcClasses, msg : ExcMessages]
    /\ InitObjects

\* generator._classify_error_type(e)
Classify ==
    /\ cout = ""
    /\ cout' = ClassifyErrorType(cin)
    /\ UNCHANGED << cfg, raceVars, beforeVars, stabVars, rampVars,
                    configVars, cin, summaryVars, unitVars, lg, retryVars, loadVars,
                    metricsVars, runnerVars >>

NextClassify == Classify

SpecClassify == InitClassify /\ [][NextClassify]_vars

InitSnapshot == cfg = DefaultConfig /\ InitRest

\* one thread recording requests while another asks for summaries
NextSnapshot ==
    \/ \E ok \in BOOLEAN : CallRecord(1, ok)
    \/ CreateLock(1)
    \/ EnterWith(1)
    \/ Acquire(1)
    \/ ReadTotal(1)
    \/ WriteTotal(1)
    \/ ReadCount(1)
    \/ WriteCount(1)
    \/ Release(1)
    \/ SummaryReadTotal("summary")
    \/ SummaryReadSuccess
    \/ SummaryReadFailed
    \/ SummaryStatistics

SpecSnapshot == InitSnapshot /\ [][NextSnapshot]_vars

InitSummary == cfg = DefaultConfig /\ InitRest

\* one caller recording requests and asking for summaries
NextSummary ==
    \/ \E ok \in BOOLEAN, rt \in 1..MaxTime, tx \in BOOLEAN : RecordRequest(ok, rt, tx, 1)
    \/ \E n \in 1..MaxUsers : UpdateConcurrentUsers(n)
    \/ \E kind \in SummaryKinds : SummaryReadTotal(kind)
    \/ SummaryReadSuccess
    \/ SummaryReadFailed
    \/ SummaryStatistics
    \/ TransactionMetrics

SpecSummary == InitSummary /\ [][NextSummary]_vars

InitRunner == cfg = DefaultConfig /\ InitRest

\* a runner being configured and run
NextRunner ==
    \/ \E t \in TestTypes : SetTestType(t)
    \/ ApiCall
    \/ TestFunction
    \/ TestCase
    \/ BeforeTask
    \/ AfterTask
    \/ \E b \in BOOLEAN : StopOnError(b)
    \/ Run

SpecRunner == InitRunner /\ [][NextRunner]_vars

InitConfig == cfg = DefaultConfig /\ InitRest

\* a runner receiving configuration calls
NextConfig ==
    \/ \E seconds \in ConfigArgs : Duration(seconds)
    \/ \E u, d, r \in ConfigArgs : Concurrent(u, d, r)
    \/ \E users \in ConfigArgs : ConcurrentUsers(users)
    \/ \E t, steps \in ConfigArgs : RampUp(t, steps)
    \/ \E tps \in ConfigArgs : TargetTps(tps)
    \/ \E r, d, t, steps \in ConfigArgs : Tps(r, d, t, steps)
    \/ \E qps \in ConfigArgs : TargetQps(qps)
    \/ \E r, d, t, steps \in ConfigArgs : Qps(r, d, t, steps)
    \/ \E d, u, c \in ConfigArgs : Stability(d, u, c)
    \/ \E steps \in ConfigArgs : RampUpSteps(steps)
    \/ \E seconds \in ConfigArgs : RampUpTime(seconds)
    \/ \E size \in ConfigArgs : SetMaxThreadPoolSize(size)

SpecConfig == InitConfig /\ [][NextConfig]_vars

InitSeries == cfg = DefaultConfig /\ InitRest

\* record_request calls whose start times arrive in any order
NextSeries ==
    \E ok \in BOOLEAN, rt \in 1..MaxTime, second \in 1..MaxSecond :
        RecordRequest(ok, rt, FALSE, second)

SpecSeries == InitSeries /\ [][NextSeries]_vars

\* ramp-up runs over the numbers of users and of ramp steps
InitRamp ==
    /\ cfg \in { [DefaultConfig EXCEPT !.stop_on_error = s,
                                       !.concurrent_users = u,
                                       !.test_type = "ramp_up",
                                       !.ramp_up_steps = n] :
                     s \in BOOLEAN, u \in 1..MaxUsers, n \in 0..MaxSteps }
    /\ InitRest

NextRamp == NextDispatch

SpecRamp == InitRamp /\ [][NextRamp]_vars

----------------------------------------------------------------------------
(* LoadGenerator._record_error called by several threads at once: the worker  *)
(* threads call it from _execute_with_retry, the collecting thread from the   *)
(* load profile. No lock is taken; each `+= 1` is a load followed by a store. *)

\* the counter of _error_statistics that the call increments after the total
KindKey(g, error_type) ==
    IF NormalizedErrorType(error_type) \in DOMAIN g.error_statistics
    THEN NormalizedErrorType(error_type) ELSE "other_error"

\* a thread enters _record_error(error_type, ...)
RaceCall(t, error_type) ==
    /\ epc[t] = "idle"
    /\ nrec < MaxRecorded
    /\ nrec' = nrec + 1
    /\ etype' = [etype EXCEPT ![t] = error_type]
    /\ ekinds' = [ekinds EXCEPT ![error_type] = @ + 1]
    /\ epc' = [epc EXCEPT ![t] = "read_count"]
    /\ UNCHANGED << cfg, lg, ereg, check_ret, before_did, beforeVars, stabVars, rampVars,
                    configVars, classVars, summaryVars, retryVars, loadVars,
                    metricsVars, runnerVars >>

\* self._error_count += 1 (load)
RaceReadCount(t) ==
    /\ epc[t] = "read_count"
    /\ ereg' = [ereg EXCEPT ![t] = lg.error_count]
    /\ epc' = [epc EXCEPT ![t] = "write_count"]
    /\ UNCHANGED << cfg, lg, etype, ekinds, unitVars, beforeVars, stabVars, rampVars,
                    configVars, classVars, summaryVars, retryVars, loadVars,
                    metricsVars, runnerVars >>

\* self._error_count += 1 (store)
RaceWriteCount(t) ==
    /\ epc[t] = "write_count"
    /\ lg' = [lg EXCEPT !.error_count = ereg[t] + 1]
    /\ epc' = [epc EXCEPT ![t] = "read_total"]
    /\ UNCHANGED << cfg, ereg, etype, ekinds, unitVars, beforeVars, stabVars, rampVars,
                    configVars, classVars, summaryVars, retryVars, loadVars,
                    metricsVars, runnerVars >>

\* self._error_statistics['total_errors'] += 1 (load)
RaceReadTotal(t) ==
    /\ epc[t] = "read_total"
    /\ ereg' = [ereg EXCEPT ![t] = lg.error_statistics["total_errors"]]
    /\ epc' = [epc EXCEPT ![t] = "write_total"]
    /\ UNCHANGED << cfg, lg, etype, ekinds, unitVars, beforeVars, stabVars, rampVars,
                    configVars, classVars, summaryVars, retryVars, loadVars,
                    metricsVars, runnerVars >>

\* self._error_statistics['total_errors'] += 1 (store), then the lines that copy
\* the total to _total_errors and raise the consecutive counters
RaceWriteTotal(t) ==
    /\ epc[t] = "write_total"
    /\ LET st == [lg.error_statistics EXCEPT !["total_errors"] = ereg[t] + 1]
       IN  lg' = [WithStatistics(lg, st) EXCEPT
                     !.total_errors = st["total_errors"],
                     !.consecutive_errors = @ + 1,
                     !.consecutive_error_count = lg.consecutive_errors + 1]
    /\ epc' = [epc EXCEPT ![t] = "read_kind"]
    /\ UNCHANGED << cfg, ereg, etype, ekinds, unitVars, beforeVars, stabVars, rampVars,
                    configVars, classVars, summaryVars, retryVars, loadVars,
                    metricsVars, runnerVars >>

\* self._error_statistics[normalized_error_type] += 1 (load)
RaceReadKind(t) ==
    /\ epc[t] = "read_kind"
    /\ ereg' = [ereg EXCEPT ![t] = lg.error_statistics[KindKey(lg, etype[t])]]
    /\ epc' = [epc EXCEPT ![t] = "write_kind"]
    /\ UNCHANGED << cfg, lg, etype, ekinds, unitVars, beforeVars, stabVars, rampVars,
                    configVars, classVars, summaryVars, retryVars, loadVars,
                    metricsVars, runnerVars >>

\* self._error_statistics[normalized_error_type] += 1 (store), then the rest of
\* the call: the entry of a non-standard type, the error details, the stop event
RaceWriteKind(t) ==
    /\ epc[t] = "write_kind"
    /\ LET s1 == [lg.error_statistics EXCEPT ![KindKey(lg, etype[t])] = ereg[t] + 1]
           s2 == IF etype[t] \notin StandardErrorTypes THEN Bump(s1, etype[t]) ELSE s1
       IN  lg' = [WithStatistics(lg, s2) EXCEPT
                     !.error_details = Bump(@, "Test error"),
                     !.stop_event = @ \/ (NormalizedErrorType(etype[t]) = "system_error")]
    /\ epc' = [epc EXCEPT ![t] = "idle"]
    /\ UNCHANGED << cfg, ereg, etype, ekinds, unitVars, beforeVars, stabVars, rampVars,
                    configVars, classVars, summaryVars, retryVars, loadVars,
                    metricsVars, runnerVars >>

InitRace == cfg = DefaultConfig /\ InitRest

NextRace ==
    \/ \E t \in Threads, error_type \in RaceTypes : RaceCall(t, error_type)
    \/ \E t \in Threads : RaceReadCount(t)
    \/ \E t \in Threads : RaceWriteCount(t)
    \/ \E t \in Threads : RaceReadTotal(t)
    \/ \E t \in Threads : RaceWriteTotal(t)
    \/ \E t \in Threads : RaceReadKind(t)
    \/ \E t \in Threads : RaceWriteKind(t)

SpecRace == InitRace /\ [][NextRace]_vars

----------------------------------------------------------------------------
(* LoadGenerator.generate_load with test_type 'stability':                 *)
(* _generate_stability_load                                                *)

MaxIters == 3
MaxTasks == 3

\* results[-1000:]: the periodic check looks at no more than this many results
AnalysisCap == 1000

\* range(min(max_workers, 100)): tasks submitted per loop iteration
SubmitCap == 100

\* what the future of a task holds: the task's own dictionary keeps its
\* 'duration', a wrapped value has none, None after a failed task
StabilityResult(v, d) ==
    IF v = "raise"
    THEN [tag |-> "None", success |-> FALSE, duration |-> 0]
    ELSE [tag |-> "dict", success |-> WrapResult(v).success,
          duration |-> IF v = "dict_ok" THEN d ELSE 0]

\* error_result of the collect loop's except handler
StabilityErrorResult == [tag |-> "dict", success |-> FALSE, duration |-> 0]

\* the argument of the periodic _analyze_stability_interval call
AnalysisInput(res) ==
    IF Len(res) > AnalysisCap THEN SubSeq(res, Len(res) - AnalysisCap + 1, Len(res))
    ELSE res

IsSuccess(r) == r.success

\* [r.get('duration', 0) for r in interval_results if r.get('success', True)]
SuccessDurations(res) ==
    LET ok == SelectSeq(res, IsSuccess)
    IN  [i \in 1..Len(ok) |-> ok[i].duration]

\* durations[int(len(durations) * q)], q in hundredths
DurationAt(durations, q) == durations[((Len(durations) * q) \div 100) + 1]

\* _analyze_stability_interval; the error rate is kept as count and total
AnalyzeStabilityInterval(res) ==
    LET durations == SortList(SuccessDurations(res))
        error_count == Len(res) - Len(durations)
    IN  IF res = << >>
        THEN [error_count |-> 0, p50 |-> 0, p95 |-> 0, p99 |-> 0, total_count |-> 0]
        ELSE [error_count |-> error_count,
              p50 |-> IF durations = << >> THEN 0 ELSE DurationAt(durations, 50),
              p95 |-> IF durations = << >> THEN 0 ELSE DurationAt(durations, 95),
              p99 |-> IF durations = << >> THEN 0 ELSE DurationAt(durations, 99),
              total_count |-> Len(res)]

\* error_rate > threshold, with error_rate = error_count / total_count
ErrorRateAbove(r, percent) ==
    r.total_count > 0 /\ r.error_count * 100 > percent * r.total_count

\* _check_stability_threshold: True when the interval passes
CheckStabilityThreshold(interval_result, threshold) ==
    /\ ~ErrorRateAbove(interval_result, threshold.error_rate)
    /\ ~(interval_result.p95 > threshold.response_time_p95)
    /\ ~(interval_result.p99 > threshold.response_time_p99)

\* a None in the list: r.get raises AttributeError inside the analysis
HasNone(res) == \E i \in 1..Len(res) : res[i].tag = "None"

\* entry of _generate_stability_load: the lists and the error statistics start empty
StabilityStart ==
    /\ st_pc = "idle"
    /\ lg' = ProfileSetup([lg EXCEPT !.running = TRUE], cfg)
    /\ st_pc' = "loop"
    /\ st_results' = << >>
    /\ interval_results' = << >>
    /\ UNCHANGED << cfg, st_checks, st_mark, st_running, st_done, st_submitted, st_iters,
                    raceVars, beforeVars, rampVars, configVars, classVars, summaryVars, unitVars,
                    retryVars, loadVars, metricsVars, runnerVars >>

\* top of the while loop: leave on deadline or stop; when a check is due,
\* analyse, record the interval, stop the run if a threshold is exceeded
StabilityLoop(expired, due) ==
    /\ st_pc = "loop"
    /\ st_iters >= MaxIters => expired
    /\ IF expired \/ lg.stop_event
       THEN /\ st_pc' = "final"
            /\ UNCHANGED << lg, interval_results, st_checks, st_mark, st_iters >>
       ELSE /\ st_iters' = st_iters + 1
            /\ IF ~due
               THEN /\ st_pc' = "submit"
                    /\ UNCHANGED << lg, interval_results, st_checks, st_mark >>
               ELSE LET passed == AnalysisInput(st_results)
                        interval_result == AnalyzeStabilityInterval(passed)
                        since == SubSeq(st_results, st_mark + 1, Len(st_results))
                    IN  /\ st_checks' = Append(st_checks,
                                               [analysed |-> passed, window |-> since])
                        /\ st_mark' = Len(st_results)
                        /\ IF HasNone(passed)
                           THEN /\ st_pc' = "raised"
                                /\ UNCHANGED << lg, interval_results >>
                           ELSE /\ interval_results' =
                                       Append(interval_results, interval_result)
                                /\ IF CheckStabilityThreshold(interval_result,
                                                              cfg.stability_threshold)
                                   THEN st_pc' = "submit" /\ lg' = lg
                                   ELSE st_pc' = "final" /\ lg' = StopObj(lg)
    /\ UNCHANGED << cfg, st_results, st_running, st_done, st_submitted,
                    raceVars, beforeVars, rampVars, configVars, classVars, summaryVars, unitVars,
                    retryVars, loadVars, metricsVars, runnerVars >>

\* the submit loop: k tasks go to the executor; fewer than the batch size
\* only when the deadline passes or the stop event is set meanwhile
StabilitySubmit(k) ==
    /\ st_pc = "submit"
    /\ k \in 0..Min(MaxWorkers(cfg), SubmitCap)
    /\ st_submitted + k <= MaxTasks
    /\ lg.stop_event => k = 0
    /\ st_running' = k
    /\ st_done' = << >>
    /\ st_submitted' = st_submitted + k
    /\ st_pc' = "collect"
    /\ UNCHANGED << cfg, lg, st_results, interval_results, st_checks, st_mark, st_iters,
                    raceVars, beforeVars, rampVars, configVars, classVars, summaryVars, unitVars,
                    retryVars, loadVars, metricsVars, runnerVars >>

\* a worker thread runs _execute_with_retry for one submitted task:
\* v is what task_func does, d the 'duration' of the dictionary it returns
StabilityTask(v, d, e) ==
    /\ st_pc \in { "collect", "final" }
    /\ st_running > 0
    /\ st_running' = st_running - 1
    /\ st_done' = Append(st_done, StabilityResult(v, d))
    /\ LET g0 == [lg EXCEPT !.consecutive_error_count = 0, !.consecutive_errors = 0]
       IN  lg' = IF v = "raise" THEN FailedAttempt(g0, e) ELSE g0
    /\ UNCHANGED << cfg, st_pc, st_results, interval_results, st_checks, st_mark,
                    st_submitted, st_iters,
                    raceVars, beforeVars, rampVars, configVars, classVars, summaryVars, unitVars,
                    retryVars, loadVars, metricsVars, runnerVars >>

\* one iteration of the as_completed loop
StabilityCollect ==
    /\ st_pc = "collect"
    /\ st_done # << >>
    /\ IF lg.stop_event
       THEN /\ st_pc' = "final"
            /\ UNCHANGED << lg, st_results, st_done >>
       ELSE LET result == Head(st_done)
                g0 == [lg EXCEPT !.completed_tasks = @ + 1]
            IN  /\ st_done' = Tail(st_done)
                /\ st_pc' = st_pc
                /\ IF result.tag = "None"
                   THEN \* result.get raises AttributeError: the except handler
                        /\ st_results' = Append(Append(st_results, result),
                                                StabilityErrorResult)
                        /\ lg' = RecordError([g0 EXCEPT !.completed_tasks = @ + 1],
                                             "unexpected_error", AttributeErrorMsg)
                   ELSE /\ st_results' = Append(st_results, result)
                        /\ lg' = g0
    /\ UNCHANGED << cfg, interval_results, st_checks, st_mark, st_running,
                    st_submitted, st_iters,
                    raceVars, beforeVars, rampVars, configVars, classVars, summaryVars, unitVars,
                    retryVars, loadVars, metricsVars, runnerVars >>

\* as_completed is exhausted: back to the top of the while loop
StabilityCollectDone ==
    /\ st_pc = "collect"
    /\ st_running = 0
    /\ st_done = << >>
    /\ st_pc' = "loop"
    /\ UNCHANGED << cfg, lg, st_results, interval_results, st_checks, st_mark,
                    st_running, st_done, st_submitted, st_iters,
                    raceVars, beforeVars, rampVars, configVars, classVars, summaryVars, unitVars,
                    retryVars, loadVars, metricsVars, runnerVars >>

\* the executor has shut down (every submitted task finished): the final
\* analysis over all results, then the return
StabilityFinal ==
    /\ st_pc = "final"
    /\ st_running = 0
    /\ st_done' = << >>
    /\ IF st_results = << >>
       THEN st_pc' = "done" /\ UNCHANGED interval_results
       ELSE IF HasNone(st_results)
       THEN st_pc' = "raised" /\ UNCHANGED interval_results
       ELSE /\ st_pc' = "done"
            /\ interval_results' =
                   Append(interval_results, AnalyzeStabilityInterval(st_results))
    /\ UNCHANGED << cfg, lg, st_results, st_checks, st_mark, st_running,
                    st_submitted, st_iters,
                    raceVars, beforeVars, rampVars, configVars, classVars, summaryVars, unitVars,
                    retryVars, loadVars, metricsVars, runnerVars >>

\* generator.stop() from another thread while the stability run is under way
StabilityStop ==
    /\ st_pc \in { "loop", "submit", "collect" }
    /\ Stop

TaskValues == { "dict_ok", "dict_fail", "raise" }

NextStability ==
    \/ StabilityStart
    \/ \E expired \in BOOLEAN, due \in BOOLEAN : StabilityLoop(expired, due)
    \/ \E k \in 0..MaxUsers : StabilitySubmit(k)
    \/ \E v \in TaskValues, d \in 0..MaxTime, e \in DispatchExceptions :
           StabilityTask(v, d, e)
    \/ StabilityCollect
    \/ StabilityCollectDone
    \/ StabilityFinal
    \/ StabilityStop

InitStability ==
    /\ \E u \in 1..MaxUsers :
           cfg = [DefaultConfig EXCEPT !.test_type = "stability", !.concurrent_users = u]
    /\ InitRest

SpecStability == InitStability /\ [][NextStability]_vars

----------------------------------------------------------------------------
(* Properties *)

RECURSIVE SeqSum(_)
SeqSum(q) == IF q = << >> THEN 0 ELSE q[1] + SeqSum(Tail(q))

Last(q) == q[Len(q)]

\* a retry executor call has returned and its last attempt raised
EndedInFailure(w) ==
    wpc[w] = "done" /\ hist[w] # << >> /\ Last(hist[w]) \in ErrorKinds

\* no thread is between acquiring and releasing the collector's lock
NoRecordInProgress ==
    \A t \in Threads : tpc[t] \in { "idle", "create", "with", "acquire" }

\* C1: whenever no record_request call is inside its guarded section,
\* total_requests = successful_requests + failed_requests and total_requests
\* equals the number of record_request calls that have returned.
C1_CountersConsistent ==
    NoRecordInProgress =>
        /\ mc.total_requests = mc.successful_requests + mc.failed_requests
        /\ mc.total_requests = mc_done

\* C2: run() on a runner with a test function, API call or test case configured
\* returns a result for every test type.
C2_RunReturns ==
    (run_state.runs > 0 /\ run_state.configured) => run_state.outcome = "returned"

\* C3: with stop_on_error = false a concurrent generate_load never raises,
\* whatever the tasks do and whatever thresholds are configured.
C3_LoadNeverRaises ==
    ~cfg.stop_on_error => (mpc # "raised" /\ load_exc = "")

\* C4: every collected task completion contributes exactly one results entry,
\* one completed_tasks increment and one result_callback invocation.
C4_OneRecordPerTask ==
    /\ Len(results) = collected
    /\ lg.completed_tasks = collected
    /\ cfg.has_callback => Len(callbacks) = collected

\* C5: a task that returns a result with success = false yields an outcome with
\* success = false.
C5_FailedStaysFailed ==
    \A w \in Slots :
        (wpc[w] = "done" /\ hist[w] # << >> /\ Last(hist[w]) = "dict_fail")
            => (outcome[w].tag = "dict" /\ ~outcome[w].success)

\* C6: when the last permitted attempt raises, the executor returns an outcome
\* record with success = false carrying the kind classified from that attempt.
C6_FinalFailureRecord ==
    \A w \in Slots :
        EndedInFailure(w)
            => /\ outcome[w].tag = "dict"
               /\ ~outcome[w].success
               /\ outcome[w].error_type = Last(hist[w])

\* every attempt so far raised an error that the retry policy retries
AllRetryable(w) ==
    /\ hist[w] # << >>
    /\ \A i \in 1..Len(hist[w]) :
           hist[w][i] \in cfg.retryable_errors \/ hist[w][i] = "timeout"

\* C7: the task is invoked at most max_retries + 1 times; when every attempt
\* raises a retryable error it is invoked exactly max_retries + 1 times with
\* exactly max_retries sleeps; with max_retries = 0 a failing task runs once.
C7_AttemptBudget ==
    \A w \in Slots :
        /\ calls[w] <= cfg.max_retries + 1
        /\ (wpc[w] = "done" /\ AllRetryable(w))
               => (calls[w] = cfg.max_retries + 1 /\ Len(sleeps[w]) = cfg.max_retries)
        /\ (EndedInFailure(w) /\ cfg.max_retries = 0) => calls[w] = 1

C7_Witness ==
    /\ wpc[1] = "done"
    /\ AllRetryable(1)
    /\ cfg.max_retries = 2
    /\ calls[1] = 3
    /\ Len(sleeps[1]) = 2

\* C8: failed attempt number i is followed by a sleep and another attempt iff
\* attempts remain and its kind is listed in retryable_errors or is timeout;
\* otherwise the task ends there without sleeping.
C8_RetryDecision ==
    \A w \in Slots : \A i \in 1..Len(hist[w]) :
        hist[w][i] \in ErrorKinds =>
            LET retried == i <= Len(sleeps[w])
                expected == /\ i - 1 < cfg.max_retries
                            /\ (hist[w][i] \in cfg.retryable_errors
                                  \/ hist[w][i] = "timeout")
            IN  /\ retried <=> expected
                /\ ~expected => (wpc[w] = "done" /\ Len(hist[w]) = i /\ calls[w] = i)
                /\ (expected /\ wpc[w] = "done") => calls[w] > i

C8_Witness ==
    /\ cfg.retryable_errors = {}
    /\ Len(hist[1]) = 2
    /\ hist[1][1] = "timeout"
    /\ hist[1][2] = "other_error"
    /\ Len(sleeps[1]) = 1
    /\ wpc[1] = "done"

\* C9: no retry is decided while the stop event is set.
C9_NoRetryAfterStop ==
    \A w \in Slots : \A i \in 1..Len(sleeps[w]) : ~decidedS[w][i]

\* C10: the sleep after failed attempt a (from 0) lasts retry_delay * 2^a, and a
\* task that exhausts n retries has slept retry_delay * (2^n - 1) in total.
C10_Backoff ==
    \A w \in Slots :
        /\ \A i \in 1..Len(sleeps[w]) : sleeps[w][i] = cfg.retry_delay * (2 ^ (i - 1))
        /\ (EndedInFailure(w) /\ Len(sleeps[w]) = cfg.max_retries)
               => SeqSum(sleeps[w]) = cfg.retry_delay * ((2 ^ cfg.max_retries) - 1)

C10_Witness ==
    /\ EndedInFailure(1)
    /\ cfg.max_retries = 2
    /\ cfg.retry_delay = 2
    /\ sleeps[1] = << 2, 4 >>

C12_InFlightRecorded ==
    (mpc = "returned" /\ late = 0) =>
        \A w \in Slots : fut[w] \in { "none", "collected" }

\* the task of slot w ended in failure: it raised, or reported success = false
TaskFailed(w) ==
    hist[w] # << >> /\ Last(hist[w]) \in ErrorKinds \cup { "dict_fail" }

\* the outcome of a failed task has been recorded by the collect loop
FailureRecorded == \E w \in Slots : fut[w] = "collected" /\ TaskFailed(w)

\* a concurrent run that stops on the first error
StopOnErrorRun == cfg.test_type = "concurrent" /\ cfg.stop_on_error

\* C13: in a concurrent run with stop_on_error, once a failed outcome is recorded
\* the stop event is set, no further task is dispatched and no further outcome
\* (so none of a task started later) is recorded.
C13_StopOnFirstFailure ==
    /\ [](StopOnErrorRun /\ FailureRecorded => lg.stop_event)
    /\ [][(StopOnErrorRun /\ FailureRecorded) =>
              (nsub' = nsub /\ results' = results /\ callbacks' = callbacks)]_vars

\* one of the configured thresholds is reached by the counters of g
ThresholdReached(g, c) ==
    \/ c.error_threshold # NoneV /\ g.total_errors >= c.error_threshold
    \/ /\ c.error_rate_threshold # NoneV
       /\ g.completed_tasks > 0
       /\ g.total_errors * 100 >= c.error_rate_threshold * g.completed_tasks
    \/ /\ c.consecutive_error_threshold # NoneV
       /\ g.consecutive_errors >= c.consecutive_error_threshold
    \/ \E t \in DOMAIN c.error_type_thresholds :
           /\ t \in DOMAIN g.error_statistics
           /\ g.error_statistics[t] >= c.error_type_thresholds[t]

\* C14: called while the stop event is not set, _check_error_threshold returns
\* True and sets the stop event exactly when a configured threshold is reached
\* (a None threshold never triggers), and returns False otherwise.
C14_ThresholdCheck ==
    (check_ret.ret # "" /\ ~check_ret.stopped) =>
        IF ThresholdReached(lg, cfg)
        THEN check_ret.ret = "True" /\ lg.stop_event
        ELSE check_ret.ret = "False" /\ ~lg.stop_event

\* every attempt of the call in slot w so far failed
OnlyFailures(w) ==
    /\ hist[w] # << >>
    /\ \A i \in 1..Len(hist[w]) : hist[w][i] \in ErrorKinds

\* C15: the consecutive-error counter equals the number of failures recorded
\* since the most recent success: each failure raises it by exactly one.
C15_ConsecutiveCount ==
    OnlyFailures(1) => lg.consecutive_errors = Len(hist[1])

RECURSIVE CounterSum(_, _)
\* sum of the counters of st under the keys ks
CounterSum(st, ks) ==
    IF ks = {} THEN 0
    ELSE LET k == CHOOSE x \in ks : TRUE
         IN  st[k] + CounterSum(st, ks \ { k })

\* C16: after any sequence of _record_error calls total_errors equals the number
\* of calls and the per-kind counters of the error statistics sum to
\* total_errors (every failure is counted under exactly one kind).
C16_KindCountersSum ==
    /\ lg.total_errors = nrec
    /\ lg.error_statistics["total_errors"] = nrec
    /\ CounterSum(lg.error_statistics,
                  DOMAIN lg.error_statistics \ { "total_errors" }) = lg.total_errors

\* generate_load has returned or raised
CallOver == mpc \in { "returned", "raised" }

\* C17: whenever an after function is supplied, generate_load has executed the
\* After phase by the time it returns or raises.
C17_AfterAlwaysRuns ==
    (CallOver /\ cfg.has_after) => (lg.after_tasks_completed /\ lg.after_results >= 1)

\* the before task failed: it raised, or returned a result with success = false
BeforeFailed == before_did \in { "raise", "dict_fail" }

\* C18: if the before task fails and stop_on_error is true, the Before phase
\* sets the stop event and the load phase is skipped: no main task is dispatched.
C18_BeforeFailureSkipsLoad ==
    (CallOver /\ BeforeFailed /\ cfg.stop_on_error) =>
        (lg.stop_event /\ batches = 0 /\ \A w \in Slots : fut[w] = "none")

\* C19: whenever a run ends with the stop event set, the dictionary generate_load
\* returns carries an abort reason.
C19_AbortReason ==
    (mpc = "returned" /\ lg.stop_event) => ("reason" \in ret.keys /\ ret.reason # "")

\* futures whose task is executing on a pool thread
Executing == { w \in Slots : fut[w] = "running" }

\* C20: with max_thread_pool_size > 0 the number of tasks executing at the same
\* time never exceeds min(concurrent_users, max_thread_pool_size).
C20_PoolBound ==
    cfg.max_thread_pool_size > 0 =>
        Cardinality(Executing) <= Min(cfg.concurrent_users, cfg.max_thread_pool_size)

\* threads inside the section guarded by `with self._lock`
InGuardedSection ==
    { t \in Threads : tpc[t] \in { "read_total", "write_total", "read_count",
                                    "write_count", "release" } }

\* C21: at most one thread at a time executes the guarded mutation section of
\* the collector, also when the first calls arrive while the lock is created.
C21_MutualExclusion == Cardinality(InGuardedSection) <= 1

\* C22: every summary returned while record_request calls run concurrently has
\* total_requests = successful_requests + failed_requests (it shows the
\* collector after some prefix of the completed calls).
C22_SummaryConsistent ==
    summary.kind # "none" =>
        summary.summary.total_requests =
            summary.summary.successful_requests + summary.summary.failed_requests

\* the closed set of error kinds: timeout, connection error, HTTP error, assertion
\* error, validation error, system error, other
ClosedErrorKinds == { "timeout", "connection_error", "http_error", "assertion_error",
                      "validation_error", "system_error", "other_error" }

\* C23: _classify_error_type returns, for every exception, one kind of the closed
\* ErrorKind set.
C23_ClassifierClosed == cout # "" => cout \in ClosedErrorKinds

\* the rules of the classifier, each taken alone
MatchesTimeout(e) ==
    \/ IsInstance(e.cls, "socket.timeout")
    \/ IsInstance(e.cls, "requests.Timeout")
    \/ MsgHasTimeout(e.msg)

MatchesConnection(e) ==
    IsInstance(e.cls, "requests.ConnectionError") \/ MsgHasConnection(e.msg)

MatchesHttp(e) == e.cls = "HTTPError" \/ e.cls = "requests.HTTPError"

MatchesAssertion(e) == IsInstance(e.cls, "AssertionError")

\* C24: the classifier applies its rules in the order timeout, connection error,
\* HTTP error, assertion error, then the rest; the first match wins.
C24_ClassifierPriority ==
    cout # "" =>
        IF MatchesTimeout(cin) THEN cout = "timeout"
        ELSE IF MatchesConnection(cin) THEN cout = "connection_error"
        ELSE IF MatchesHttp(cin) THEN cout = "http_error"
        ELSE IF MatchesAssertion(cin) THEN cout = "assertion_error"
        ELSE cout \notin { "timeout", "connection_error", "http_error", "assertion_error" }


\* the arguments of a configuration call hold a target rate <= 0, a duration <= 0,
\* a number of ramp-up steps < 1 or a thread pool size <= 0
HasArg(c, k) == k \in DOMAIN c.args
InvalidArgs(c) ==
    \/ \E k \in { "tps", "target_tps", "qps", "target_qps" } : HasArg(c, k) /\ c.args[k] <= 0
    \/ HasArg(c, "duration") /\ c.args["duration"] <= 0
    \/ c.name = "duration" /\ c.args["seconds"] <= 0
    \/ \E k \in { "steps", "ramp_up_steps" } : HasArg(c, k) /\ c.args[k] < 1
    \/ HasArg(c, "size") /\ c.args["size"] <= 0

\* C25: every configuration call whose arguments would set a target rate <= 0, a
\* duration <= 0, ramp_up_steps < 1 or max_thread_pool_size <= 0 raises ValueError
C25_InvalidConfigRejected ==
    (config_call.name # "none" /\ InvalidArgs(config_call)) => config_call.raised

\* C26: run() on a runner on which none of api_call, test_function and test_case was
\* called raises ValueError
C26_RunUnconfiguredRaises ==
    (run_state.runs > 0 /\ ~run_state.configured) => run_state.outcome = "ValueError"

\* a get_summary_metrics or get_all_metrics call has returned and nothing was called since
CallReturned == spc = "idle" /\ summary.kind # "none" /\ ~updated

\* C27: get_summary_metrics and get_all_metrics leave the collector's state as it
\* was when the call started: counters and stored sequences of response-time samples
C27_SummaryIsPure == CallReturned => mc = mc_before

\* the latest two calls were of the same operation, with no record_request between
TwoCalls == spc = "idle" /\ summary.kind # "none" /\ prev_summary.kind = summary.kind

SameResult ==
    /\ summary.summary = prev_summary.summary
    /\ summary.transaction_metrics = prev_summary.transaction_metrics

\* C28 as stated: two consecutive calls of get_summary_metrics (likewise
\* get_all_metrics) with no record_request between them return equal results
C28_Idempotent == TwoCalls => SameResult

\* C28 amended: two consecutive calls of get_summary_metrics (likewise
\* get_all_metrics) with no record_request and no update_concurrent_users between
\* them return equal results
C28_IdempotentNoUpdate == (TwoCalls /\ ~summary.after_update) => SameResult

\* two get_all_metrics calls on samples recorded out of order, globally and for
\* the transaction
C28_Witness ==
    /\ TwoCalls
    /\ summary.kind = "all"
    /\ ~summary.after_update
    /\ summary.summary.times.p50 < summary.summary.times.max_response_time
    /\ summary.transaction_metrics.max_response_time > 0

\* nearest rank: the element of 1-based rank ceil(permille / 1000 * N)
NearestRank(sorted_list, permille) ==
    sorted_list[(Len(sorted_list) * permille + 999) \div 1000]

\* C29: for a non-empty sorted sample list and every percentile used, the value
\* _calculate_percentile returns is the nearest-rank percentile
C29_NearestRank ==
    (CallReturned /\ mc.response_times # << >>) =>
        /\ summary.summary.times.p50 = NearestRank(mc.response_times, 500)
        /\ summary.summary.times.p90 = NearestRank(mc.response_times, 900)
        /\ summary.summary.times.p95 = NearestRank(mc.response_times, 950)
        /\ summary.summary.times.p99 = NearestRank(mc.response_times, 990)
        /\ summary.summary.times.p999 = NearestRank(mc.response_times, 999)

\* C30: the percentiles of a summary are monotone and bounded by the maximum:
\* p50 <= p90 <= p95 <= p99 <= p99.9 <= max_response_time
C30_PercentilesMonotone ==
    summary.kind # "none" =>
        LET t == summary.summary.times
        IN  /\ t.p50 <= t.p90
            /\ t.p90 <= t.p95
            /\ t.p95 <= t.p99
            /\ t.p99 <= t.p999
            /\ t.p999 <= t.max_response_time

\* a summary of three samples whose median is below its 90th percentile
C30_Witness ==
    /\ summary.kind # "none"
    /\ Len(mc.response_times) = 3
    /\ summary.summary.times.p50 < summary.summary.times.p90

\* the timestamps of the stored time series
Timestamps(time_series) == [ i \in 1..Len(time_series) |-> time_series[i].timestamp ]

StrictlyIncreasing(ts) == \A i \in 1..(Len(ts) - 1) : ts[i] < ts[i + 1]

OneBucketPerSecond(ts) == \A i, j \in 1..Len(ts) : ts[i] = ts[j] => i = j

IsPrefix(a, b) == Len(a) <= Len(b) /\ \A i \in 1..Len(a) : a[i] = b[i]

\* C31: the stored per-second time series has strictly increasing timestamps with
\* one bucket per distinct second, and stored buckets are never removed or reordered
C31_TimeSeriesOrdered ==
    /\ [](/\ StrictlyIncreasing(Timestamps(mc.time_series))
          /\ OneBucketPerSecond(Timestamps(mc.time_series)))
    /\ [][IsPrefix(Timestamps(mc.time_series), Timestamps(mc.time_series'))]_vars

\* round(a / b), halves to the even neighbour
RoundDiv(a, b) ==
    LET q == a \div b
        r == a % b
    IN  IF 2 * r < b THEN q
        ELSE IF 2 * r > b THEN q + 1
        ELSE IF q % 2 = 0 THEN q ELSE q + 1

\* C32: with U users and N >= 1 ramp steps the concurrency of ramp step k is
\* round(U * k / N); the step concurrencies do not decrease and the last step runs at U
C32_RampSchedule ==
    (ramp_users # << >> /\ cfg.ramp_up_steps >= 1) =>
        /\ \A k \in 1..(Len(ramp_users) - 1) :
               /\ ramp_users[k + 1] = RoundDiv(cfg.concurrent_users * k, cfg.ramp_up_steps)
               /\ ramp_users[k] <= ramp_users[k + 1]
        /\ Len(ramp_users) = cfg.ramp_up_steps + 1 =>
               ramp_users[cfg.ramp_up_steps + 1] = cfg.concurrent_users

\* a ramp-up run with at least one ramp step has ended without being cancelled
RampRunOver ==
    /\ mpc \in { "returned", "raised" }
    /\ cfg.test_type = "ramp_up"
    /\ cfg.ramp_up_steps >= 1
    /\ ~lg.stop_event

\* C33: a ramp-up run with N ramp steps that is not cancelled returns step_results
\* with N + 1 entries, the last of them the 'stable' entry
C33_StepResults ==
    RampRunOver =>
        /\ mpc = "returned"
        /\ Len(step_results) = cfg.ramp_up_steps + 1
        /\ step_results[cfg.ramp_up_steps + 1] = "stable"
\* p95 of the outcomes recorded since the previous check, as the analysis computes it
WindowP95(i) == AnalyzeStabilityInterval(st_checks[i].window).p95

\* C34: at each periodic check of a stability run, the outcomes analysed are
\* exactly the outcomes recorded since the previous check
C34_WindowAnalysed ==
    \A i \in 1..Len(st_checks) : st_checks[i].analysed = st_checks[i].window

\* C35: a periodic check whose window has p95 at or above the configured
\* response_time_p95 threshold, equality included, aborts the run: the stop
\* event is set and nothing further is dispatched
C35_AbortAtThreshold ==
    \A i \in 1..Len(st_checks) :
        (/\ ~HasNone(st_checks[i].analysed)
         /\ WindowP95(i) >= cfg.stability_threshold.response_time_p95)
        => (lg.stop_event /\ st_pc \in { "final", "done" })

\* futures of the load profile that are queued or executing
InFlight == { w \in Slots : fut[w] \in { "submitted", "running" } }

\* a main task has been handed to the executor of the load profile
MainTaskStarted == \E w \in Slots : fut[w] # "none"

\* the load profile has returned or raised: the After phase and the finally
\* clause follow
ProfileOver == mpc \in { "exit", "after", "finally", "returned", "raised" }

BeforeSucceeded ==
    /\ cfg.has_before
    /\ mpc \notin { "idle", "before" }
    /\ before_fut = "done"
    /\ before_did = "dict_ok"

\* C40: in a generate_load call whose before function succeeds at its first
\* attempt, the before function is invoked exactly once and before_results
\* holds exactly one entry
C40_BeforeInvokedOnce ==
    BeforeSucceeded => (before_calls = 1 /\ Len(before_results) = 1)

\* every run comes to an end, by returning or by raising
RunEnds == <>(mpc \in { "returned", "raised" })

\* C37: if every task invocation terminates, every concurrent run terminates:
\* no batch is submitted after the deadline or the stop event, the tasks in
\* flight drain and generate_load returns
C37_RunTerminates == <>(mpc = "returned")

\* the three redundant totals are equal
TotalsAgree ==
    /\ lg.total_errors = lg.error_count
    /\ lg.error_count = lg.error_statistics["total_errors"]

\* _error_stats shows the counters of _error_statistics
AliasAgrees == lg.stats_aliased /\ lg.error_stats = lg.error_statistics

\* C39: the redundant error counters always agree: _total_errors, _error_count
\* and _error_statistics['total_errors'] are equal and _error_stats denotes the
\* counters of _error_statistics, also right after a load profile reset them
C39_CountersAgree == TotalsAgree /\ AliasAgrees

\* no thread is inside _record_error
NoErrorRecordInProgress == \A t \in Threads : epc[t] = "idle"

\* C38: the error counters lose no update under concurrency: once the
\* _record_error calls of all threads have returned, total_errors, the total of
\* the statistics and every per-kind counter equal the number of calls made
C38_NoLostErrorUpdate ==
    NoErrorRecordInProgress =>
        /\ lg.total_errors = nrec
        /\ lg.error_count = nrec
        /\ lg.error_statistics["total_errors"] = nrec
        /\ \A k \in RaceTypes : lg.error_statistics[k] = ekinds[k]

=============================================================================
